---- MODULE Spec2Model ----
(***************************************************************************)
(* A model of the storj peer-identity core: the proof-of-work key          *)
(* generator (GenerateKey / GenerateKeys), NewCA's callback with its       *)
(* shared highscore and mutex-protected selected-key slot, certificate     *)
(* construction (NewCert, NewIdentity), the identity constructors and the  *)
(* peer-certificate verification pipeline.                                 *)
(*                                                                         *)
(* Two state machines share the module.  Spec is one call of GenerateKeys, *)
(* made by NewCA or by cmdKeyGenerate, with every access to shared memory  *)
(* a step of its own.  PKISpec is the certificate world: CAs, identities,  *)
(* saved chains and TLS handshakes, where every operation is sequential    *)
(* and is taken as one step.                                               *)
(***************************************************************************)
EXTENDS Integers, Sequences, FiniteSets, TLC

(***************************************************************************)
(* Bounds of the model.                                                    *)
(***************************************************************************)
\* the largest configured number of workers
MaxConcurrency == 2
\* the number of keys all workers together may start generating in one call
MaxKeys == 3
\* the number of certificate authorities NewCA creates
MaxCAs == 3
\* the longest chain a peer presents
MaxChainLen == 3
\* the longest list of verifiers VerifyPeerFunc is given
MaxVerifiers == 2

\* the serial numbers of bandwidth agreements are 1 .. MaxSerial
MaxSerial == 2

\* the expiration times of bandwidth agreements, in seconds, are 1 .. MaxExp
MaxExp == 1

\* the clock stops at MaxNow ticks
MaxNow == 3

\* the number of calls of BandwidthAgreements that may be in flight together
MaxCalls == 3

\* the number of revocation records that are stored
MaxRecords == 2

(***************************************************************************)
(* Keys, node IDs and difficulty.                                          *)
(***************************************************************************)
\* Private keys are numbers; 0 is the nil key.  Keys 1..6 are ECDSA keys,
\* key 7 is a key of another kind (RSA).
ECDSAKeys == 1 .. 6
OtherKeys == {7}
NoKey == 0

\* storj.NodeID{}: the all-zero node ID
ZeroID == 0

\* pkcrypto.PublicKeyFromPrivate: the public half of a private key
PublicKeyFromPrivate(key) ==
    [kind |-> IF key \in ECDSAKeys THEN "ecdsa" ELSE "rsa", n |-> key]

\* sha256(sha256(pkix(k))) as a fixed injective table; the ID is read as a
\* number whose trailing zero bits are the difficulty:
\* key 1 -> 8 (3 bits), 2 -> 256 (8), 3 -> 512 (9), 4 -> 1536 (9),
\* 5 -> 1024 (10), 6 -> 24 (3)
IdTable == <<8, 256, 512, 1536, 1024, 24>>

NodeIDFromECDSAKey(k) == IdTable[k.n]

\* NodeIDFromKey: only ECDSA keys have a node ID
NodeIDFromKey(k) ==
    IF k.kind = "ecdsa"
    THEN [ok |-> TRUE, id |-> NodeIDFromECDSAKey(k)]
    ELSE [ok |-> FALSE, id |-> ZeroID]

RECURSIVE TrailingZeros(_)
TrailingZeros(n) == IF n % 2 = 1 THEN 0 ELSE 1 + TrailingZeros(n \div 2)

\* NodeID.Difficulty: the number of trailing zero bits; an error for the
\* all-zero ID
Difficulty(id) ==
    IF id = ZeroID THEN [ok |-> FALSE, d |-> 0]
    ELSE [ok |-> TRUE, d |-> TrailingZeros(id)]

\* const minimumLoggableDifficulty
minimumLoggableDifficulty == 8

(***************************************************************************)
(* Certificates.                                                           *)
(***************************************************************************)
\* the nil certificate
NoCert == [nil |-> TRUE]

\* peertls.CATemplate / peertls.LeafTemplate
CATemplate == [isCA |-> TRUE]
LeafTemplate == [isCA |-> FALSE]

\* peertls.NewCert: the certificate for key, signed by parentKey when one is
\* given and by key itself otherwise; the issuer is the parent certificate's
\* subject, or the template's own when no parent is given.  A certificate is
\* the record of its public key, the private key that signed it, its kind,
\* its issuer (named by the issuer's public key) and ext, the key that signed
\* the signed-certificate extension among its ExtraExtensions (NoKey: none).
NewCert(key, parentKey, template, parent) ==
    LET signingKey == IF parentKey # NoKey THEN parentKey ELSE key
    IN [pub |-> PublicKeyFromPrivate(key), signer |-> signingKey,
        isCA |-> template.isCA,
        issuer |-> IF parent = NoCert THEN PublicKeyFromPrivate(key) ELSE parent.pub,
        ext |-> NoKey]

\* no certificate authority (the nil *FullCertificateAuthority)
NoCA == [Cert |-> NoCert, Key |-> NoKey, ID |-> ZeroID, RestChain |-> <<>>]

\* NewCA, after the generator has returned: the CA built from the selected
\* key and ID
BuildCA(selectedKey, selectedID, parentCert, parentKey) ==
    [Cert |-> NewCert(selectedKey, parentKey, CATemplate, parentCert),
     Key |-> selectedKey,
     ID |-> selectedID,
     RestChain |-> IF parentCert # NoCert THEN <<parentCert>> ELSE <<>>]

(***************************************************************************)
(* Chains, PEM files and the identity constructors.                        *)
(***************************************************************************)
\* peertls.LeafIndex and peertls.CAIndex, as positions of a 1-based sequence
LeafIndex == 1
CAIndex == 2

\* the elements of s from position n on (the slice s[n-1:])
SliceFrom(s, n) == [j \in 1 .. (Len(s) - n + 1) |-> s[j + n - 1]]

\* cert.Raw: the DER of the certificate as it was signed; extensions added to
\* ExtraExtensions afterwards are not part of it
Raw(cert) == [cert EXCEPT !.ext = NoKey]

\* peertls.AddSignedCertExt: key's signature over the certificate, appended
\* to its ExtraExtensions
AddSignedCertExt(key, cert) == [cert EXCEPT !.ext = key]

\* peertls.verifyCertSignature: the child's signature verifies under the
\* parent certificate's public key
verifyCertSignature(parentCert, childCert) ==
    PublicKeyFromPrivate(childCert.signer) = parentCert.pub

\* peertls.verifyChainSignatures: every certificate is signed by the next
\* one and the last one by itself
verifyChainSignatures(certs) ==
    \A n \in 1 .. Len(certs) :
        IF n < Len(certs)
        THEN verifyCertSignature(certs[n + 1], certs[n])
        ELSE verifyCertSignature(certs[n], certs[n])

\* a PEM block of a certificate file
CertBlock(cert) == [type |-> "CERTIFICATE", cert |-> Raw(cert), ext |-> NoKey]
ExtBlock(cert) == [type |-> "EXTENSION", cert |-> NoCert, ext |-> cert.ext]

\* WriteChain writing the certificates' blocks only
WriteChainCertsOnly(chain) == [n \in 1 .. Len(chain) |-> CertBlock(chain[n])]

\* peertls.WriteChain: each certificate's PEM block, followed by a block for
\* each of its ExtraExtensions
RECURSIVE WriteChain(_)
WriteChain(chain) ==
    IF chain = <<>> THEN <<>>
    ELSE <<CertBlock(Head(chain))>>
         \o (IF Head(chain).ext # NoKey THEN <<ExtBlock(Head(chain))>> ELSE <<>>)
         \o WriteChain(Tail(chain))

\* pkcrypto.CertsFromPEM: the certificates of the blocks in order, each
\* extension block attached to the certificate before it
RECURSIVE CertsFromPEM(_)
CertsFromPEM(blocks) ==
    IF blocks = <<>> THEN <<>>
    ELSE LET init == CertsFromPEM(SubSeq(blocks, 1, Len(blocks) - 1))
             b == blocks[Len(blocks)]
         IN IF b.type = "CERTIFICATE" THEN Append(init, b.cert)
            ELSE IF init = <<>> THEN init
            ELSE [init EXCEPT ![Len(init)] = [@ EXCEPT !.ext = b.ext]]

\* no identity; an identity is (kind, Leaf, CA, RestChain, Key, ID) where
\* kind names the constructor that built it
NoIdentity ==
    [kind |-> "none", Leaf |-> NoCert, CA |-> NoCert, RestChain |-> <<>>,
     Key |-> NoKey, ID |-> ZeroID]

\* the outcome of a constructor: the object built, or an error kind
Built(o) == [err |-> "", obj |-> o]
Failed(kind, none) == [err |-> kind, obj |-> none]

\* NewIdentity adding the signed-certificate extension to every leaf
NewIdentityAlwaysExt(ca, leafKey) ==
    LET leafCert == NewCert(leafKey, ca.Key, LeafTemplate, ca.Cert)
    IN [kind |-> "NewIdentity",
        RestChain |-> ca.RestChain,
        CA |-> ca.Cert,
        Leaf |-> AddSignedCertExt(ca.Key, leafCert),
        Key |-> leafKey,
        ID |-> ca.ID]

\* FullCertificateAuthority.NewIdentity
NewIdentity(ca, leafKey) ==
    LET leafCert == NewCert(leafKey, ca.Key, LeafTemplate, ca.Cert)
    IN [kind |-> "NewIdentity",
        RestChain |-> ca.RestChain,
        CA |-> ca.Cert,
        Leaf |-> IF Len(ca.RestChain) > 0
                 THEN AddSignedCertExt(ca.Key, leafCert) ELSE leafCert,
        Key |-> leafKey,
        ID |-> ca.ID]

\* FullIdentityFromPEM
FullIdentityFromPEM(chainPEM, keyPEM) ==
    LET chain == CertsFromPEM(chainPEM)
    IN IF Len(chain) < CAIndex THEN Failed("ChainLength", NoIdentity)
       ELSE LET nodeID == NodeIDFromKey(chain[CAIndex].pub)
            IN IF ~nodeID.ok THEN Failed("NodeID", NoIdentity)
               ELSE Built([kind |-> "FullIdentityFromPEM",
                           RestChain |-> SliceFrom(chain, CAIndex + 1),
                           CA |-> chain[CAIndex],
                           Leaf |-> chain[LeafIndex],
                           Key |-> keyPEM,
                           ID |-> nodeID.id])

\* Config.Load returning FullIdentityFromPEM's error as it is
ConfigLoadUnwrapped(d) ==
    IF ~d.certExists \/ ~d.keyExists THEN Failed("NotExist", NoIdentity)
    ELSE FullIdentityFromPEM(d.cert, d.key)

\* errs.New("failed to load identity %#v, %#v: %v", ..., err): a new error
\* of no class, whose text ends with the text of err
LoadFailure(err) == "failed to load identity: " \o err

\* Config.Load: both files must exist; an error of FullIdentityFromPEM is
\* replaced by a new error that quotes it
ConfigLoad(d) ==
    IF ~d.certExists \/ ~d.keyExists THEN Failed("NotExist", NoIdentity)
    ELSE LET r == FullIdentityFromPEM(d.cert, d.key)
         IN IF r.err # "" THEN Failed(LoadFailure(r.err), NoIdentity) ELSE r

\* PeerIdentityFromCerts
PeerIdentityFromCerts(leaf, ca, rest) ==
    LET nodeID == NodeIDFromKey(ca.pub)
    IN IF ~nodeID.ok THEN Failed("NodeID", NoIdentity)
       ELSE Built([kind |-> "PeerIdentityFromCerts", RestChain |-> rest,
                   CA |-> ca, Leaf |-> leaf, Key |-> NoKey, ID |-> nodeID.id])

\* PeerIdentityFromPeer: c is tlsInfo.State.PeerCertificates
PeerIdentityFromPeer(c) ==
    IF Len(c) < 2 THEN Failed("InvalidChain", NoIdentity)
    ELSE PeerIdentityFromCerts(c[LeafIndex], c[CAIndex], SliceFrom(c, 3))

\* a loaded CA is (kind, Cert, RestChain, ID, Key)

\* PeerCAConfig.Load taking the node ID from the certificate at CAIndex
PeerCALoadFromCAIndex(d) ==
    IF ~d.certExists THEN Failed("NotExist", NoIdentity)
    ELSE LET chain == CertsFromPEM(d.cert)
         IN IF Len(chain) < CAIndex THEN Failed("Load", NoIdentity)
            ELSE Built([kind |-> "PeerCAConfig.Load",
                        RestChain |-> SliceFrom(chain, CAIndex),
                        Cert |-> chain[CAIndex - 1],
                        ID |-> NodeIDFromKey(chain[CAIndex].pub).id,
                        Key |-> NoKey])

\* PeerCAConfig.Load: of a CA's certificate file, whose first certificate is
\* the CA's own; a file without a certificate cannot be loaded
PeerCALoad(d) ==
    IF ~d.certExists THEN Failed("NotExist", NoIdentity)
    ELSE LET chain == CertsFromPEM(d.cert)
         IN IF Len(chain) < 1 THEN Failed("Load", NoIdentity)
            ELSE LET nodeID == NodeIDFromKey(chain[LeafIndex].pub)
                 IN IF ~nodeID.ok THEN Failed("NodeID", NoIdentity)
                    ELSE Built([kind |-> "PeerCAConfig.Load",
                                RestChain |-> SliceFrom(chain, CAIndex),
                                Cert |-> chain[CAIndex - 1],
                                ID |-> nodeID.id,
                                Key |-> NoKey])

\* FullCAConfig.Load
FullCALoad(d) ==
    LET p == PeerCALoad(d)
    IN IF p.err # "" THEN p
       ELSE IF ~d.keyExists THEN Failed("NotExist", NoIdentity)
       ELSE Built([kind |-> "FullCAConfig.Load", RestChain |-> p.obj.RestChain,
                   Cert |-> p.obj.Cert, Key |-> d.key, ID |-> p.obj.ID])

\* FullIdentity.ChainRaw
ChainRaw(fi) == <<Raw(fi.Leaf), Raw(fi.CA)>> \o [n \in 1 .. Len(fi.RestChain) |-> Raw(fi.RestChain[n])]

\* the files on disk: nothing saved yet
NoDisk == [certExists |-> FALSE, cert |-> <<>>, keyExists |-> FALSE, key |-> NoKey]

\* Config.Save: [leaf, CA, rest...] to the certificate file, the key to the
\* key file
ConfigSave(fi) ==
    [certExists |-> TRUE, cert |-> WriteChain(<<fi.Leaf, fi.CA>> \o fi.RestChain),
     keyExists |-> TRUE, key |-> fi.Key]

\* FullCAConfig.Save: [CA, rest...] to the certificate file, the key to the
\* key file
FullCASave(ca) ==
    [certExists |-> TRUE, cert |-> WriteChain(<<ca.Cert>> \o ca.RestChain),
     keyExists |-> TRUE, key |-> ca.Key]

(***************************************************************************)
(* The verification pipeline.                                              *)
(***************************************************************************)
\* A PeerCertVerificationFunc is (v, id, cas): v names the function, id is
\* the node ID verifyIdentity was built with, cas the whitelist
\* VerifyCAWhitelist was built with.
NilVerifier == [v |-> "nil", id |-> ZeroID, cas |-> <<>>]
VerifyPeerCertChains == [v |-> "VerifyPeerCertChains", id |-> ZeroID, cas |-> <<>>]
verifyIdentity(id) == [v |-> "verifyIdentity", id |-> id, cas |-> <<>>]

\* VerifyCAWhitelist: a nil whitelist gives the nil verifier; wl is
\* (nil, certs)
VerifyCAWhitelist(wl) ==
    IF wl.nil THEN NilVerifier
    ELSE [v |-> "VerifyCAWhitelist", id |-> ZeroID, cas |-> wl.certs]

\* NodeID.String: an injective encoding of the ID
IDString(id) == <<"base58", id>>

\* the function verifyIdentity returns comparing the IDs for inequality
\* the wrong way round
RunVerifyIdentitySwapped(id, chain) ==
    IF id = ZeroID THEN "ok"
    ELSE IF Len(chain) < 2 THEN "panic"
    ELSE LET peer == PeerIdentityFromCerts(chain[1], chain[2], SliceFrom(chain, 3))
         IN IF peer.err # "" THEN peer.err
            ELSE IF IDString(peer.obj.ID) = IDString(id) THEN "IdentityMismatch"
            ELSE "ok"

\* the function verifyIdentity returns, applied to parsedChains[0]; indexing
\* a chain of fewer than two certificates panics
RunVerifyIdentity(id, chain) ==
    IF id = ZeroID THEN "ok"
    ELSE IF Len(chain) < 2 THEN "panic"
    ELSE LET peer == PeerIdentityFromCerts(chain[1], chain[2], SliceFrom(chain, 3))
         IN IF peer.err # "" THEN peer.err
            ELSE IF IDString(peer.obj.ID) # IDString(id) THEN "IdentityMismatch"
            ELSE "ok"

\* the whitelist check trying only the first CA of the whitelist
RunVerifyCAWhitelistFirstOnly(cas, chain) ==
    IF cas = <<>> THEN "VerifyCAWhitelist"
    ELSE IF Len(chain) < CAIndex THEN "panic"
    ELSE IF verifyCertSignature(cas[1], chain[CAIndex]) THEN "ok"
    ELSE "VerifyCAWhitelist"

\* the function VerifyCAWhitelist returns, applied to parsedChains[0]: the
\* first CA of the whitelist that verifies chain[CAIndex] ends the loop with
\* success; the loop body indexes the chain, and panics on a short one
RunVerifyCAWhitelist(cas, chain) ==
    IF cas = <<>> THEN "VerifyCAWhitelist"
    ELSE IF Len(chain) < CAIndex THEN "panic"
    ELSE IF \E n \in 1 .. Len(cas) : verifyCertSignature(cas[n], chain[CAIndex])
    THEN "ok"
    ELSE "VerifyCAWhitelist"

\* one verifier applied to the parsed chain: "ok", "panic" or an error kind
RunVerifier(f, chain) ==
    CASE f.v = "VerifyPeerCertChains" ->
            IF verifyChainSignatures(chain) THEN "ok" ELSE "VerifyCertificateChain"
      [] f.v = "verifyIdentity" -> RunVerifyIdentity(f.id, chain)
      [] f.v = "VerifyCAWhitelist" -> RunVerifyCAWhitelist(f.cas, chain)

\* pkcrypto.CertsFromDER: the certificates of the DER blobs, or an error if
\* one of them does not parse; a blob is (valid, cert)
CertsFromDER(rawChain) ==
    IF \E n \in 1 .. Len(rawChain) : ~rawChain[n].valid
    THEN [ok |-> FALSE, certs |-> <<>>]
    ELSE [ok |-> TRUE, certs |-> [n \in 1 .. Len(rawChain) |-> rawChain[n].cert]]

\* the result of the composed verifier: state is "ok", "error" or "panic",
\* class and cause are the error's outer class and inner kind, invoked the
\* positions of the verifiers that were called, in the order of the calls
PeerResult(state, class, cause, invoked) ==
    [state |-> state, class |-> class, cause |-> cause, invoked |-> invoked]

\* the loop of VerifyPeerFunc going on after a verifier's error
RECURSIVE VerifyLoopNoStop(_, _, _, _, _)
VerifyLoopNoStop(next, chain, n, invoked, failed) ==
    IF n > Len(next)
    THEN IF failed = "" THEN PeerResult("ok", "", "", invoked)
         ELSE PeerResult("error", "VerifyPeerCert", failed, invoked)
    ELSE IF next[n] = NilVerifier THEN VerifyLoopNoStop(next, chain, n + 1, invoked, failed)
    ELSE LET r == RunVerifier(next[n], chain)
         IN IF r = "panic" THEN PeerResult("panic", "", "", Append(invoked, n))
            ELSE VerifyLoopNoStop(next, chain, n + 1, Append(invoked, n),
                                  IF r = "ok" \/ failed # "" THEN failed ELSE r)

VerifyLoopKeepGoing(next, chain, n, invoked) ==
    VerifyLoopNoStop(next, chain, n, invoked, "")

\* VerifyPeerFunc, the loop over next from position n: nil entries are
\* skipped, the first error ends the loop and is wrapped
RECURSIVE VerifyLoop(_, _, _, _)
VerifyLoop(next, chain, n, invoked) ==
    IF n > Len(next) THEN PeerResult("ok", "", "", invoked)
    ELSE IF next[n] = NilVerifier THEN VerifyLoop(next, chain, n + 1, invoked)
    ELSE LET r == RunVerifier(next[n], chain)
         IN IF r = "ok" THEN VerifyLoop(next, chain, n + 1, Append(invoked, n))
            ELSE IF r = "panic" THEN PeerResult("panic", "", "", Append(invoked, n))
            ELSE PeerResult("error", "VerifyPeerCert", r, Append(invoked, n))

\* the function VerifyPeerFunc(next...) returns, applied to a raw chain
VerifyPeerFunc(next, rawChain) ==
    LET c == CertsFromDER(rawChain)
    IN IF ~c.ok THEN PeerResult("error", "VerifyPeerCert", "Parse", <<>>)
       ELSE VerifyLoop(next, c.certs, 1, <<>>)

(***************************************************************************)
(* The revocation check.                                                   *)
(***************************************************************************)
\* no revocation record
NoRevocation == [nil |-> TRUE]

\* a revocation record: the DER of the revoked certificate and the key that
\* signed the record
Revocation(certHash, signer) ==
    [nil |-> FALSE, CertHash |-> certHash, signer |-> signer]

\* RevocationDB.Get: the store's error, or the last record stored under the
\* raw bytes of the chain's CA certificate, or no record
RevocationDBGet(revDB, chain) ==
    IF revDB.fail THEN [err |-> TRUE, rev |-> NoRevocation]
    ELSE IF Raw(chain[CAIndex]) \in DOMAIN revDB.recs
    THEN [err |-> FALSE, rev |-> revDB.recs[Raw(chain[CAIndex])]]
    ELSE [err |-> FALSE, rev |-> NoRevocation]

\* Revocation.Verify: the record was signed by the key of the CA certificate
RevocationVerify(rev, ca) == PublicKeyFromPrivate(rev.signer) = ca.pub

\* the revocation check comparing the record's hash with the CA's DER only
VerifyUnrevokedChainCAOnly(revDB, chain) ==
    IF Len(chain) < CAIndex THEN "panic"
    ELSE LET ca == chain[CAIndex]
             last == RevocationDBGet(revDB, chain)
         IN IF last.err THEN "Extension"
            ELSE IF last.rev = NoRevocation THEN "ok"
            ELSE IF last.rev.CertHash = Raw(ca)
            THEN IF RevocationVerify(last.rev, ca) THEN "RevokedCert" ELSE "Extension"
            ELSE "ok"

\* the function VerifyUnrevokedChainFunc(revDB) returns, applied to
\* chains[0]: "ok", "panic" (indexing a chain of fewer than two
\* certificates) or the error kind
VerifyUnrevokedChainFunc(revDB, chain) ==
    IF Len(chain) < CAIndex THEN "panic"
    ELSE LET leaf == chain[LeafIndex]
             ca == chain[CAIndex]
             last == RevocationDBGet(revDB, chain)
         IN IF last.err THEN "Extension"
            ELSE IF last.rev = NoRevocation THEN "ok"
            ELSE IF last.rev.CertHash = Raw(ca) \/ last.rev.CertHash = Raw(leaf)
            THEN IF RevocationVerify(last.rev, ca) THEN "RevokedCert" ELSE "Extension"
            ELSE "ok"

(***************************************************************************)
(* The bandwidth-agreement receiver.                                       *)
(***************************************************************************)
\* an error is the sequence of its classes, the outermost first; nil is the
\* empty sequence
NilErr == <<>>

\* strings.Contains, on texts taken as sequences of words
Contains(text, substr) ==
    \E off \in 0 .. (Len(text) - Len(substr)) :
        \A j \in 1 .. Len(substr) : text[off + j] = substr[j]

\* the texts of the errors the agreement store returns
SqliteUniqueMsg == <<"UNIQUE", "constraint", "failed", ":", "bwagreements.serial">>
PostgresUniqueMsg == <<"pq", ":", "duplicate", "key", "violates", "unique", "constraint">>
OtherStoreMsg == <<"database", "is", "locked">>

\* the test of the store's error looking for the first text only
IsUniqueViolationSqliteOnly(msg) ==
    Contains(msg, <<"UNIQUE", "constraint", "failed">>)

\* the test BandwidthAgreements makes of the store's error
IsUniqueViolation(msg) ==
    \/ Contains(msg, <<"UNIQUE", "constraint", "failed">>)
    \/ Contains(msg, <<"violates", "unique", "constraint">>)

\* DB.CreateAgreement on the store agr (the serials of the agreements it
\* holds): a failure of the store itself, a unique-constraint violation in
\* the store's dialect, or the agreement added
CreateAgreement(agr, rba, store) ==
    IF store.fault THEN [kind |-> "other", msg |-> OtherStoreMsg, agreements |-> agr]
    ELSE IF rba.Serial \in agr
    THEN [kind |-> "unique",
          msg |-> IF store.dialect = "sqlite" THEN SqliteUniqueMsg ELSE PostgresUniqueMsg,
          agreements |-> agr]
    ELSE [kind |-> "", msg |-> <<>>, agreements |-> agr \cup {rba.Serial}]

\* the nanoseconds of a second, as ticks of the clock
TicksPerSec == 2

\* time.Unix(sec, 0)
Unix(sec) == sec * TicksPerSec

\* Time.Before
Before(t, u) == t < u

\* the bit length of the prime of the keys' curve
CurveBitLen == 256

\* k.Curve.Params().P.BitLen() / 8
signatureLength(k) == CurveBitLen \div 8

\* cryptopasta.Verify: a signature is (len, by); it verifies under the public
\* key k when it has the full length of r and s and was made with k's
\* private key over the message
CryptoVerify(sig, k) ==
    /\ sig.len = 2 * signatureLength(k)
    /\ PublicKeyFromPrivate(sig.by) = k

\* x509.ParsePKIXPublicKey: PKIX bytes are (valid, key)
ParsePKIXPublicKey(bytes) ==
    IF bytes.valid THEN [ok |-> TRUE, key |-> PublicKeyFromPrivate(bytes.key)]
    ELSE [ok |-> FALSE, key |-> PublicKeyFromPrivate(NoKey)]

\* the uplink database: uplink 1 is unknown, 2 has bytes that do not parse,
\* 3 a key that is not an ECDSA key, 4 the ECDSA key 5
UplinkIds == 1 .. 4

GetPublicKey(uplinkId) ==
    CASE uplinkId = 1 -> [err |-> TRUE, PublicKey |-> [valid |-> FALSE, key |-> NoKey]]
      [] uplinkId = 2 -> [err |-> FALSE, PublicKey |-> [valid |-> FALSE, key |-> NoKey]]
      [] uplinkId = 3 -> [err |-> FALSE, PublicKey |-> [valid |-> TRUE, key |-> 7]]
      [] OTHER -> [err |-> FALSE, PublicKey |-> [valid |-> TRUE, key |-> 5]]

\* the satellite: its public key and node ID
Server == [pkey |-> PublicKeyFromPrivate(2), NodeID |-> NodeIDFromECDSAKey(PublicKeyFromPrivate(2))]

\* what verifySignature returns, with the steps it took
Verified(err, log) == [err |-> err, log |-> log]

\* verifySignature with both length checks made before either verification
verifySignatureLengthsFirst(s, rba) ==
    LET pba == rba.PayerAllocation
        uplinkInfo == GetPublicKey(pba.UplinkId)
        pubkey == ParsePKIXPublicKey(uplinkInfo.PublicKey)
        k == pubkey.key
    IN IF uplinkInfo.err
       THEN Verified(<<"ErrRenter", "ErrVerify">>, <<"GetPublicKey">>)
       ELSE IF ~pubkey.ok THEN Verified(<<"Error">>, <<"GetPublicKey">>)
       ELSE IF k.kind # "ecdsa" THEN Verified(<<"ErrUnsupportedKey">>, <<"GetPublicKey">>)
       ELSE IF rba.Signature.len < signatureLength(k)
       THEN Verified(<<"ErrRenter", "ErrSigLen">>, <<"GetPublicKey">>)
       ELSE IF pba.Signature.len < signatureLength(s.pkey)
       THEN Verified(<<"ErrPayer", "ErrSigLen">>, <<"GetPublicKey">>)
       ELSE IF ~CryptoVerify(rba.Signature, k)
       THEN Verified(<<"ErrRenter", "ErrVerify">>, <<"GetPublicKey", "VerifyRenter">>)
       ELSE IF ~CryptoVerify(pba.Signature, s.pkey)
       THEN Verified(<<"ErrPayer", "ErrVerify">>,
                     <<"GetPublicKey", "VerifyRenter", "VerifyPayer">>)
       ELSE Verified(NilErr, <<"GetPublicKey", "VerifyRenter", "VerifyPayer">>)

\* verifySignature reporting every failure to resolve the renter's key as
\* ErrRenter wrapping ErrVerify
verifySignatureOneKeyError(s, rba) ==
    LET pba == rba.PayerAllocation
        uplinkInfo == GetPublicKey(pba.UplinkId)
        pubkey == ParsePKIXPublicKey(uplinkInfo.PublicKey)
        k == pubkey.key
    IN IF uplinkInfo.err \/ ~pubkey.ok \/ k.kind # "ecdsa"
       THEN Verified(<<"ErrRenter", "ErrVerify">>, <<"GetPublicKey">>)
       ELSE IF rba.Signature.len < signatureLength(k)
       THEN Verified(<<"ErrRenter", "ErrSigLen">>, <<"GetPublicKey">>)
       ELSE IF ~CryptoVerify(rba.Signature, k)
       THEN Verified(<<"ErrRenter", "ErrVerify">>, <<"GetPublicKey", "VerifyRenter">>)
       ELSE IF s.pkey.kind # "ecdsa"
       THEN Verified(<<"ErrUnsupportedKey">>, <<"GetPublicKey", "VerifyRenter">>)
       ELSE IF pba.Signature.len < signatureLength(s.pkey)
       THEN Verified(<<"ErrPayer", "ErrSigLen">>, <<"GetPublicKey", "VerifyRenter">>)
       ELSE IF ~CryptoVerify(pba.Signature, s.pkey)
       THEN Verified(<<"ErrPayer", "ErrVerify">>,
                     <<"GetPublicKey", "VerifyRenter", "VerifyPayer">>)
       ELSE Verified(NilErr, <<"GetPublicKey", "VerifyRenter", "VerifyPayer">>)

\* Server.verifySignature: the renter's key is fetched, parsed and cast; the
\* renter's signature is measured, then verified; the satellite's key is
\* cast; the satellite's signature is measured, then verified
verifySignature(s, rba) ==
    LET pba == rba.PayerAllocation
        uplinkInfo == GetPublicKey(pba.UplinkId)
        pubkey == ParsePKIXPublicKey(uplinkInfo.PublicKey)
        k == pubkey.key
    IN IF uplinkInfo.err
       THEN Verified(<<"ErrRenter", "ErrVerify">>, <<"GetPublicKey">>)
       ELSE IF ~pubkey.ok THEN Verified(<<"Error">>, <<"GetPublicKey">>)
       ELSE IF k.kind # "ecdsa" THEN Verified(<<"ErrUnsupportedKey">>, <<"GetPublicKey">>)
       ELSE IF rba.Signature.len < signatureLength(k)
       THEN Verified(<<"ErrRenter", "ErrSigLen">>, <<"GetPublicKey">>)
       ELSE IF ~CryptoVerify(rba.Signature, k)
       THEN Verified(<<"ErrRenter", "ErrVerify">>, <<"GetPublicKey", "VerifyRenter">>)
       ELSE IF s.pkey.kind # "ecdsa"
       THEN Verified(<<"ErrUnsupportedKey">>, <<"GetPublicKey", "VerifyRenter">>)
       ELSE IF pba.Signature.len < signatureLength(s.pkey)
       THEN Verified(<<"ErrPayer", "ErrSigLen">>, <<"GetPublicKey", "VerifyRenter">>)
       ELSE IF ~CryptoVerify(pba.Signature, s.pkey)
       THEN Verified(<<"ErrPayer", "ErrVerify">>,
                     <<"GetPublicKey", "VerifyRenter", "VerifyPayer">>)
       ELSE Verified(NilErr, <<"GetPublicKey", "VerifyRenter", "VerifyPayer">>)

\* PeerIdentityFromContext: ctx is (peer, chain); no gRPC peer is an error,
\* auth info that is not TLS info fails the type assertion of
\* PeerIdentityFromPeer, which panics
PeerIdentityFromContext(ctx) ==
    IF ctx.peer = "none"
    THEN [state |-> "returned", err |-> "NoPeer", obj |-> NoIdentity]
    ELSE IF ctx.peer = "notTLS"
    THEN [state |-> "panic", err |-> "", obj |-> NoIdentity]
    ELSE LET pi == PeerIdentityFromPeer(ctx.chain)
         IN [state |-> "returned", err |-> pi.err, obj |-> pi.obj]

\* the outcome of the handler before the store is touched: it has returned
\* (state "returned"), panicked, or gone on to the store (state "create")
Reply(state, status, err, log) ==
    [state |-> state, status |-> status, err |-> err, log |-> log]

\* the checks of BandwidthAgreements with the expiration tested before the
\* satellite ID
BandwidthAgreementsExpirationFirst(s, ctx, rba, now) ==
    LET pba == rba.PayerAllocation
        pi == PeerIdentityFromContext(ctx)
        exp == Unix(pba.ExpirationUnixSec)
        v == verifySignature(s, rba)
    IN IF pi.state = "panic" \/ pi.err # "" THEN Reply("panic", "none", NilErr, <<>>)
       ELSE IF rba.StorageNodeId # pi.obj.ID
       THEN Reply("returned", "REJECTED", <<"ErrBadID">>, <<>>)
       ELSE IF Before(exp, now)
       THEN Reply("returned", "REJECTED", <<"ErrPayer", "ErrExpired">>, <<>>)
       ELSE IF pba.SatelliteId # s.NodeID
       THEN Reply("returned", "REJECTED", <<"ErrPayer">>, <<>>)
       ELSE IF v.err # NilErr THEN Reply("returned", "REJECTED", v.err, v.log)
       ELSE Reply("create", "REJECTED", NilErr, v.log)

\* BandwidthAgreements up to the call of the store.  When
\* PeerIdentityFromContext returns an error its identity is nil, and the
\* arguments of ErrBadID.New read pi.ID: the handler panics
BandwidthAgreementsChecks(s, ctx, rba, now) ==
    LET pba == rba.PayerAllocation
        pi == PeerIdentityFromContext(ctx)
        exp == Unix(pba.ExpirationUnixSec)
        v == verifySignature(s, rba)
    IN IF pi.state = "panic" \/ pi.err # "" THEN Reply("panic", "none", NilErr, <<>>)
       ELSE IF rba.StorageNodeId # pi.obj.ID
       THEN Reply("returned", "REJECTED", <<"ErrBadID">>, <<>>)
       ELSE IF pba.SatelliteId # s.NodeID
       THEN Reply("returned", "REJECTED", <<"ErrPayer">>, <<>>)
       ELSE IF Before(exp, now)
       THEN Reply("returned", "REJECTED", <<"ErrPayer", "ErrExpired">>, <<>>)
       ELSE IF v.err # NilErr THEN Reply("returned", "REJECTED", v.err, v.log)
       ELSE Reply("create", "REJECTED", NilErr, v.log)

\* the end of BandwidthAgreements replying OK whatever the store returned
BandwidthAgreementsSaveAlwaysOK(r, c) ==
    LET log == Append(r.log, "CreateAgreement")
    IN IF c.msg # <<>>
       THEN IF IsUniqueViolation(c.msg)
            THEN Reply("returned", "OK", <<"ErrPayer", "ErrSerial">>, log)
            ELSE Reply("returned", "OK", <<"ErrPayer">>, log)
       ELSE Reply("returned", "OK", NilErr, log)

\* the end of BandwidthAgreements taking a unique-constraint violation for
\* success
BandwidthAgreementsSaveIgnoreDuplicate(r, c) ==
    LET log == Append(r.log, "CreateAgreement")
    IN IF c.msg # <<>> /\ ~IsUniqueViolation(c.msg)
       THEN Reply("returned", "FAIL", <<"ErrPayer">>, log)
       ELSE Reply("returned", "OK", NilErr, log)

\* BandwidthAgreements from the call of the store on: r is the outcome of
\* the checks, c what CreateAgreement returned
BandwidthAgreementsSave(r, c) ==
    LET log == Append(r.log, "CreateAgreement")
    IN IF c.msg # <<>>
       THEN IF IsUniqueViolation(c.msg)
            THEN Reply("returned", "REJECTED", <<"ErrPayer", "ErrSerial">>, log)
            ELSE Reply("returned", "FAIL", <<"ErrPayer">>, log)
       ELSE Reply("returned", "OK", NilErr, log)

(***************************************************************************)
(* verifySignature and the memory of a call.  rba is a pointer: its        *)
(* pointee is the caller's message.  The payer allocation is a field by    *)
(* value of the message, and pba, rbad and pbad are local variables of     *)
(* verifySignature holding values.                                         *)
(***************************************************************************)
\* a nil signature and a nil list of certificates
NilSignature == [len |-> 0, by |-> NoKey]
NilCerts == <<>>

\* a local variable that has not been assigned
Unassigned == [unassigned |-> TRUE]

\* the setters of the two messages: the field of the message they are
\* called on is assigned
SetSignature(msg, sig) == [msg EXCEPT !.Signature = sig]
SetCerts(msg, certs) == [msg EXCEPT !.Certs = certs]

\* the memory at the call of verifySignature: the caller's message, and the
\* locals yet to be assigned
Memory(rba) ==
    [rba |-> rba, pba |-> Unassigned, rbad |-> Unassigned, pbad |-> Unassigned]

\* step is one of the steps verifySignature took
Took(v, step) == \E n \in 1 .. Len(v.log) : v.log[n] = step

\* verifySignature clearing the fields of the caller's message itself
\* (rbad := rba, and pbad the payer allocation inside it)
verifySignatureInPlace(s, m) ==
    LET v == verifySignature(s, m.rba)
        m1 == [m EXCEPT !.pba = m.rba.PayerAllocation]
        cleared == SetCerts(SetSignature(m1.rba, NilSignature), NilCerts)
        m2 == IF Took(v, "VerifyRenter")
              THEN [m1 EXCEPT !.rba = cleared, !.rbad = cleared]
              ELSE m1
        pcleared == SetCerts(SetSignature(m2.rba.PayerAllocation, NilSignature), NilCerts)
        m3 == IF Took(v, "VerifyPayer")
              THEN [m2 EXCEPT !.rba.PayerAllocation = pcleared, !.pbad = pcleared]
              ELSE m2
    IN [err |-> v.err, log |-> v.log, mem |-> m3]

\* verifySignature, with what it does to the memory: pba is assigned the
\* payer allocation; once the renter's signature is long enough rbad is
\* assigned *rba and its signature and certificates are set to nil; once
\* the satellite's signature is long enough pbad is assigned pba and its
\* signature and certificates are set to nil
verifySignatureMemory(s, m) ==
    LET v == verifySignature(s, m.rba)
        m1 == [m EXCEPT !.pba = m.rba.PayerAllocation]
        m2 == IF Took(v, "VerifyRenter")
              THEN [m1 EXCEPT !.rbad =
                       SetCerts(SetSignature(m1.rba, NilSignature), NilCerts)]
              ELSE m1
        m3 == IF Took(v, "VerifyPayer")
              THEN [m2 EXCEPT !.pbad =
                       SetCerts(SetSignature(m2.pba, NilSignature), NilCerts)]
              ELSE m2
    IN [err |-> v.err, log |-> v.log, mem |-> m3]

(***************************************************************************)
(* The generator: state.                                                   *)
(***************************************************************************)
VARIABLES
    caller,        \* "NewCA" or "cmdKeyGenerate": who called GenerateKeys
    opts,          \* NewCAOptions, or keyCfg for cmdKeyGenerate
    ctxCancelled,  \* the ambient context has been cancelled
    innerCancelled,\* GenerateKeys' own cancel() has run
    generated,     \* keys whose generation has been started
    i,             \* NewCA's key counter i / cmdKeyGenerate's counter
    highscore,     \* NewCA's highscore
    mu,            \* NewCA's mutex: 0 when free, else the worker holding it
    selectedKey,   \* NewCA's selectedKey
    selectedID,    \* NewCA's selectedID
    wpc,           \* each worker's position
    wkey,          \* each worker's current key k
    wid,           \* each worker's current id
    whs,           \* each worker's hs, the highscore it loaded
    wout,          \* the outcome each worker is about to send
    errchan,       \* the buffered channel errchan
    mainpc,        \* the position of the goroutine that called GenerateKeys
    gkOutcome,     \* what GenerateKeys returns
    ncaResult,     \* what NewCA returns
    passed,        \* history: the (key, id) pairs handed to the callback
    sentLog,       \* history: every send on errchan, in order
    installs       \* history: the workers that wrote the selected-key slot

\* the certificate world
VARIABLES
    cas,           \* the certificate authorities NewCA has returned
    obj,           \* the identity or CA most recently built by a constructor
    disk,          \* the certificate file and the key file
    perr           \* the error kind of the most recent operation ("" if none)

\* a TLS handshake
VARIABLES
    hs             \* the call of the composed VerifyPeerCertificate function

\* a call of the revocation verifier
VARIABLES
    rv,            \* the call of the function VerifyUnrevokedChainFunc returned
    revStore,      \* the revocation store (the RevocationDB)
    revLog         \* the records stored so far, oldest first, each with its CA

pkiVars == <<cas, obj, disk, perr>>
tlsVars == <<hs>>
revVars == <<rv, revStore, revLog>>

\* the satellite's bandwidth-agreement service
VARIABLES
    now,           \* the clock, in ticks
    agreements,    \* the agreement store: the serials of the stored agreements
    bw,            \* the call of BandwidthAgreements that completed last
    calls,         \* the calls of BandwidthAgreements in flight together
    mem            \* the memory of a call of BandwidthAgreements

bwVars == <<now, agreements, bw, calls, mem>>

genVars == <<caller, opts, ctxCancelled, innerCancelled, generated, i,
             highscore, mu, selectedKey, selectedID, wpc, wkey, wid, whs,
             wout, errchan, mainpc, gkOutcome, ncaResult, passed, sentLog,
             installs>>

vars == <<genVars, pkiVars, tlsVars, revVars, bwVars>>

\* outcomes a worker reports and GenerateKeys returns
NoOutcome == [kind |-> "none", cause |-> "none"]
DoneOutcome == [kind |-> "done", cause |-> "none"]
KeygenErr == [kind |-> "error", cause |-> "keygen"]
CallbackErr == [kind |-> "error", cause |-> "callback"]
CancelErr(cause) == [kind |-> "cancelled", cause |-> cause]

\* the workers GenerateKeys starts: for i := 0; i < concurrency; i++
Concurrency ==
    IF caller = "NewCA" /\ opts.Concurrency < 1 THEN 1 ELSE opts.Concurrency
Workers == 1 .. Concurrency

\* the minDifficulty GenerateKeys is called with
MinDifficulty ==
    IF caller = "NewCA" THEN minimumLoggableDifficulty ELSE opts.Difficulty

\* a self-signed parent CA that NewCA may be nested under
ParentCA == BuildCA(5, NodeIDFromECDSAKey(PublicKeyFromPrivate(5)), NoCert, NoKey)

GenInit ==
    /\ caller \in {"NewCA", "cmdKeyGenerate"}
    /\ \E d \in {3, 9}, c \in 0 .. MaxConcurrency, l \in BOOLEAN, p \in BOOLEAN :
          /\ caller = "cmdKeyGenerate" => (~l /\ ~p)
          /\ opts = [Difficulty |-> d, Concurrency |-> c, Logger |-> l,
                     ParentCert |-> IF p THEN ParentCA.Cert ELSE NoCert,
                     ParentKey |-> IF p THEN ParentCA.Key ELSE NoKey]
    /\ ctxCancelled = FALSE
    /\ innerCancelled = FALSE
    /\ generated = 0
    /\ i = 0
    /\ highscore = 0
    /\ mu = 0
    /\ selectedKey = NoKey
    /\ selectedID = ZeroID
    /\ wpc = [w \in Workers |-> "head"]
    /\ wkey = [w \in Workers |-> NoKey]
    /\ wid = [w \in Workers |-> ZeroID]
    /\ whs = [w \in Workers |-> 0]
    /\ wout = [w \in Workers |-> NoOutcome]
    /\ errchan = <<>>
    /\ mainpc = "wait"
    /\ gkOutcome = NoOutcome
    /\ ncaResult = [state |-> "none", err |-> NoOutcome, ca |-> NoCA]
    /\ passed = {}
    /\ sentLog = <<>>
    /\ installs = <<>>

(***************************************************************************)
(* The generator: GenerateKey and the workers of GenerateKeys.             *)
(***************************************************************************)
\* the keys pkcrypto.GeneratePrivateKey may return to a worker
FreshKeys == 1 .. 4

\* ctx.Err() of the context GenerateKeys derives with context.WithCancel
CtxErr == ctxCancelled \/ innerCancelled

\* GenerateKey returning the first key whatever its difficulty
GenerateKeyTryAny(k, minDifficulty) ==
    LET id == NodeIDFromECDSAKey(PublicKeyFromPrivate(k))
        d == Difficulty(id)
    IN [err |-> ~d.ok, found |-> d.ok, k |-> k, id |-> id]

\* GenerateKey, one iteration past the context check: the key's node ID, its
\* difficulty, and whether the loop returns the pair
GenerateKeyTry(k, minDifficulty) ==
    LET id == NodeIDFromECDSAKey(PublicKeyFromPrivate(k))
        d == Difficulty(id)
    IN [err |-> ~d.ok, found |-> d.ok /\ d.d >= minDifficulty, k |-> k, id |-> id]

\* what the worker keeps of an iteration once it loops
ClearLocals(w) ==
    /\ wkey' = [wkey EXCEPT ![w] = NoKey]
    /\ wid' = [wid EXCEPT ![w] = ZeroID]
    /\ whs' = [whs EXCEPT ![w] = 0]

\* a loop head that does not look at the context
LoopHeadBlind(w) ==
    /\ w \in Workers
    /\ wpc[w] = "head"
    /\ generated < MaxKeys
    /\ generated' = generated + 1
    /\ wpc' = [wpc EXCEPT ![w] = "gen"]
    /\ UNCHANGED wout
    /\ UNCHANGED <<pkiVars, tlsVars, revVars, bwVars, caller, opts, ctxCancelled, innerCancelled, i, highscore, mu,
                   selectedKey, selectedID, wkey, wid, whs, errchan, mainpc,
                   gkOutcome, ncaResult, passed, sentLog, installs>>

\* GenerateKey's loop head: err = ctx.Err(); a cancelled context ends the
\* worker with the cancellation error, which it then sends
LoopHead(w) ==
    /\ w \in Workers
    /\ wpc[w] = "head"
    /\ IF CtxErr
       THEN /\ wout' = [wout EXCEPT ![w] =
                           CancelErr(IF ctxCancelled THEN "external" ELSE "internal")]
            /\ wpc' = [wpc EXCEPT ![w] = "send"]
            /\ UNCHANGED generated
       ELSE /\ generated < MaxKeys
            /\ generated' = generated + 1
            /\ wpc' = [wpc EXCEPT ![w] = "gen"]
            /\ UNCHANGED wout
    /\ UNCHANGED <<pkiVars, tlsVars, revVars, bwVars, caller, opts, ctxCancelled, innerCancelled, i, highscore, mu,
                   selectedKey, selectedID, wkey, wid, whs, errchan, mainpc,
                   gkOutcome, ncaResult, passed, sentLog, installs>>

\* GenerateKey past the loop head: a key is generated (or the generation
\* fails); a key below minDifficulty sends the worker back to the loop head,
\* any other is returned and handed to the callback
GenKey(w) ==
    /\ w \in Workers
    /\ wpc[w] = "gen"
    /\ \/ /\ wout' = [wout EXCEPT ![w] = KeygenErr]
          /\ wpc' = [wpc EXCEPT ![w] = "send"]
          /\ UNCHANGED <<wkey, wid, passed>>
       \/ \E k \in FreshKeys :
            LET r == GenerateKeyTry(k, MinDifficulty)
            IN IF r.err
               THEN /\ wout' = [wout EXCEPT ![w] = KeygenErr]
                    /\ wpc' = [wpc EXCEPT ![w] = "send"]
                    /\ UNCHANGED <<wkey, wid, passed>>
               ELSE IF r.found
               THEN /\ wkey' = [wkey EXCEPT ![w] = r.k]
                    /\ wid' = [wid EXCEPT ![w] = r.id]
                    /\ passed' = passed \cup {<<r.k, r.id>>}
                    /\ wpc' = [wpc EXCEPT ![w] = "found"]
                    /\ UNCHANGED wout
               ELSE /\ wpc' = [wpc EXCEPT ![w] = "head"]
                    /\ UNCHANGED <<wkey, wid, passed, wout>>
    /\ UNCHANGED <<pkiVars, tlsVars, revVars, bwVars, caller, opts, ctxCancelled, innerCancelled, generated, i,
                   highscore, mu, selectedKey, selectedID, whs, errchan, mainpc,
                   gkOutcome, ncaResult, sentLog, installs>>

\* errchan <- err on a channel without buffer: the send waits for a receiver
SendUnbuffered(w) ==
    /\ w \in Workers
    /\ wpc[w] = "send"
    /\ mainpc = "wait"
    /\ errchan = <<>>
    /\ errchan' = Append(errchan, wout[w])
    /\ sentLog' = Append(sentLog, [w |-> w, out |-> wout[w]])
    /\ wpc' = [wpc EXCEPT ![w] = "exit"]
    /\ UNCHANGED <<pkiVars, tlsVars, revVars, bwVars, caller, opts, ctxCancelled, innerCancelled, generated, i,
                   highscore, mu, selectedKey, selectedID, wkey, wid, whs, wout,
                   mainpc, gkOutcome, ncaResult, passed, installs>>

\* errchan <- err: the channel holds `concurrency` values
Send(w) ==
    /\ w \in Workers
    /\ wpc[w] = "send"
    /\ Len(errchan) < Concurrency
    /\ errchan' = Append(errchan, wout[w])
    /\ sentLog' = Append(sentLog, [w |-> w, out |-> wout[w]])
    /\ wpc' = [wpc EXCEPT ![w] = "exit"]
    /\ UNCHANGED <<pkiVars, tlsVars, revVars, bwVars, caller, opts, ctxCancelled, innerCancelled, generated, i,
                   highscore, mu, selectedKey, selectedID, wkey, wid, whs, wout,
                   mainpc, gkOutcome, ncaResult, passed, installs>>

(***************************************************************************)
(* cmdKeyGenerate's callback.                                              *)
(***************************************************************************)
\* the callback of cmdKeyGenerate: it encodes the key, counts it and writes
\* it to a file; it never reports done
CmdCallback(w) ==
    /\ w \in Workers
    /\ caller = "cmdKeyGenerate"
    /\ wpc[w] = "found"
    /\ \/ /\ wout' = [wout EXCEPT ![w] = CallbackErr]   \* PrivateKeyToPKCS8 fails
          /\ wpc' = [wpc EXCEPT ![w] = "send"]
          /\ UNCHANGED <<i, wkey, wid, whs>>
       \/ /\ i' = i + 1                                  \* WriteFile fails
          /\ wout' = [wout EXCEPT ![w] = CallbackErr]
          /\ wpc' = [wpc EXCEPT ![w] = "send"]
          /\ UNCHANGED <<wkey, wid, whs>>
       \/ /\ i' = i + 1                                  \* the key is written
          /\ wpc' = [wpc EXCEPT ![w] = "head"]
          /\ ClearLocals(w)
          /\ UNCHANGED wout
    /\ UNCHANGED <<pkiVars, tlsVars, revVars, bwVars, caller, opts, ctxCancelled, innerCancelled, generated,
                   highscore, mu, selectedKey, selectedID, errchan, mainpc,
                   gkOutcome, ncaResult, passed, sentLog, installs>>

(***************************************************************************)
(* NewCA's callback.                                                       *)
(***************************************************************************)
\* the floor dropped: every candidate is selected
MeetsFloorAlways(difficulty) == TRUE

\* a callback that never reports done
MeetsFloorNever(difficulty) == FALSE

\* if difficulty >= opts.Difficulty
MeetsFloor(difficulty) == difficulty >= opts.Difficulty

\* a lock that never waits
MutexFreeNever(w) == TRUE

\* mu.Lock() can be taken
MutexFree(w) == mu = 0

\* if selectedKey == nil
SlotEmpty == selectedKey = NoKey

\* the difficulty of the worker's candidate (difficulty, err := id.Difficulty())
WDiff(w) == Difficulty(wid[w])

\* the callback up to its branch: the key is counted when a logger is set,
\* and the candidate's difficulty is compared with opts.Difficulty
CBEnter(w) ==
    /\ w \in Workers
    /\ caller = "NewCA"
    /\ wpc[w] = "found"
    /\ i' = IF opts.Logger THEN i + 1 ELSE i
    /\ IF ~WDiff(w).ok
       THEN /\ wout' = [wout EXCEPT ![w] = CallbackErr]
            /\ wpc' = [wpc EXCEPT ![w] = "send"]
       ELSE /\ wpc' = [wpc EXCEPT ![w] =
                          IF MeetsFloor(WDiff(w).d) THEN "lock" ELSE "load"]
            /\ UNCHANGED wout
    /\ UNCHANGED <<pkiVars, tlsVars, revVars, bwVars, caller, opts, ctxCancelled, innerCancelled, generated,
                   highscore, mu, selectedKey, selectedID, wkey, wid, whs,
                   errchan, mainpc, gkOutcome, ncaResult, passed, sentLog,
                   installs>>

\* mu.Lock()
Lock(w) ==
    /\ w \in Workers
    /\ wpc[w] = "lock"
    /\ MutexFree(w)
    /\ mu' = w
    /\ wpc' = [wpc EXCEPT ![w] = "check"]
    /\ UNCHANGED <<pkiVars, tlsVars, revVars, bwVars, caller, opts, ctxCancelled, innerCancelled, generated, i,
                   highscore, selectedKey, selectedID, wkey, wid, whs, wout,
                   errchan, mainpc, gkOutcome, ncaResult, passed, sentLog,
                   installs>>

\* if selectedKey == nil
Check(w) ==
    /\ w \in Workers
    /\ wpc[w] = "check"
    /\ wpc' = [wpc EXCEPT ![w] = IF SlotEmpty THEN "setkey" ELSE "unlock"]
    /\ UNCHANGED <<pkiVars, tlsVars, revVars, bwVars, caller, opts, ctxCancelled, innerCancelled, generated, i,
                   highscore, mu, selectedKey, selectedID, wkey, wid, whs, wout,
                   errchan, mainpc, gkOutcome, ncaResult, passed, sentLog,
                   installs>>

\* selectedKey = k
SetKey(w) ==
    /\ w \in Workers
    /\ wpc[w] = "setkey"
    /\ selectedKey' = wkey[w]
    /\ installs' = Append(installs, w)
    /\ wpc' = [wpc EXCEPT ![w] = "setid"]
    /\ UNCHANGED <<pkiVars, tlsVars, revVars, bwVars, caller, opts, ctxCancelled, innerCancelled, generated, i,
                   highscore, mu, selectedID, wkey, wid, whs, wout, errchan,
                   mainpc, gkOutcome, ncaResult, passed, sentLog>>

\* selectedID = id
SetID(w) ==
    /\ w \in Workers
    /\ wpc[w] = "setid"
    /\ selectedID' = wid[w]
    /\ wpc' = [wpc EXCEPT ![w] = "unlock"]
    /\ UNCHANGED <<pkiVars, tlsVars, revVars, bwVars, caller, opts, ctxCancelled, innerCancelled, generated, i,
                   highscore, mu, selectedKey, wkey, wid, whs, wout, errchan,
                   mainpc, gkOutcome, ncaResult, passed, sentLog, installs>>

\* mu.Unlock()
Unlock(w) ==
    /\ w \in Workers
    /\ wpc[w] = "unlock"
    /\ mu' = 0
    /\ wpc' = [wpc EXCEPT ![w] = "swap"]
    /\ UNCHANGED <<pkiVars, tlsVars, revVars, bwVars, caller, opts, ctxCancelled, innerCancelled, generated, i,
                   highscore, selectedKey, selectedID, wkey, wid, whs, wout,
                   errchan, mainpc, gkOutcome, ncaResult, passed, sentLog,
                   installs>>

\* with a logger, atomic.SwapUint32(highscore, difficulty); return true, nil
Swap(w) ==
    /\ w \in Workers
    /\ wpc[w] = "swap"
    /\ highscore' = IF opts.Logger THEN WDiff(w).d ELSE highscore
    /\ wout' = [wout EXCEPT ![w] = DoneOutcome]
    /\ wpc' = [wpc EXCEPT ![w] = "send"]
    /\ UNCHANGED <<pkiVars, tlsVars, revVars, bwVars, caller, opts, ctxCancelled, innerCancelled, generated, i,
                   mu, selectedKey, selectedID, wkey, wid, whs, errchan, mainpc,
                   gkOutcome, ncaResult, passed, sentLog, installs>>

\* hs := atomic.LoadUint32(highscore); if difficulty <= hs: return false, nil
Load(w) ==
    /\ w \in Workers
    /\ wpc[w] = "load"
    /\ IF WDiff(w).d <= highscore
       THEN /\ wpc' = [wpc EXCEPT ![w] = "head"]
            /\ ClearLocals(w)
       ELSE /\ wpc' = [wpc EXCEPT ![w] = "cas"]
            /\ whs' = [whs EXCEPT ![w] = highscore]
            /\ UNCHANGED <<wkey, wid>>
    /\ UNCHANGED <<pkiVars, tlsVars, revVars, bwVars, caller, opts, ctxCancelled, innerCancelled, generated, i,
                   highscore, mu, selectedKey, selectedID, wout, errchan, mainpc,
                   gkOutcome, ncaResult, passed, sentLog, installs>>

\* if atomic.CompareAndSwapUint32(highscore, hs, difficulty): return false, nil
CAS(w) ==
    /\ w \in Workers
    /\ wpc[w] = "cas"
    /\ IF highscore = whs[w]
       THEN /\ highscore' = WDiff(w).d
            /\ wpc' = [wpc EXCEPT ![w] = "head"]
            /\ ClearLocals(w)
       ELSE /\ wpc' = [wpc EXCEPT ![w] = "load"]
            /\ UNCHANGED <<highscore, wkey, wid, whs>>
    /\ UNCHANGED <<pkiVars, tlsVars, revVars, bwVars, caller, opts, ctxCancelled, innerCancelled, generated, i,
                   mu, selectedKey, selectedID, wout, errchan, mainpc,
                   gkOutcome, ncaResult, passed, sentLog, installs>>

(***************************************************************************)
(* The caller of GenerateKeys.                                             *)
(***************************************************************************)
\* a receive that takes the newest value of the channel
ReceiveLast(ch) == ch[Len(ch)]

\* <-errchan: the oldest value of the channel
Receive(ch) == Head(ch)

\* return <-errchan: the value GenerateKeys returns is received
GKReceive ==
    /\ mainpc = "wait"
    /\ errchan # <<>>
    /\ gkOutcome' = Receive(errchan)
    /\ errchan' = Tail(errchan)
    /\ mainpc' = "defer"
    /\ UNCHANGED <<pkiVars, tlsVars, revVars, bwVars, caller, opts, ctxCancelled, innerCancelled, generated, i,
                   highscore, mu, selectedKey, selectedID, wpc, wkey, wid, whs,
                   wout, ncaResult, passed, sentLog, installs>>

\* defer cancel(): runs once the return value is set; GenerateKeys returns
GKReturn ==
    /\ mainpc = "defer"
    /\ innerCancelled' = TRUE
    /\ mainpc' = "returned"
    /\ UNCHANGED <<pkiVars, tlsVars, revVars, bwVars, caller, opts, ctxCancelled, generated, i, highscore, mu,
                   selectedKey, selectedID, wpc, wkey, wid, whs, wout, errchan,
                   gkOutcome, ncaResult, passed, sentLog, installs>>

\* NewCA building a CA whenever a key has been selected
NewCAReturnIfSelected(err, key, id, tmplOK) ==
    IF key = NoKey THEN [state |-> "error", err |-> err, ca |-> NoCA]
    ELSE [state |-> "ok", err |-> NoOutcome,
          ca |-> BuildCA(key, id, opts.ParentCert, opts.ParentKey)]

\* NewCA after GenerateKeys: if err != nil return nil, err; a template that
\* cannot be made is an error too; otherwise the CA of the selected key
NewCAReturn(err, key, id, tmplOK) ==
    IF err.kind # "done" THEN [state |-> "error", err |-> err, ca |-> NoCA]
    ELSE IF ~tmplOK
    THEN [state |-> "error", err |-> [kind |-> "error", cause |-> "template"],
          ca |-> NoCA]
    ELSE [state |-> "ok", err |-> NoOutcome,
          ca |-> BuildCA(key, id, opts.ParentCert, opts.ParentKey)]

NewCAFinish ==
    /\ caller = "NewCA"
    /\ mainpc = "returned"
    /\ \E tmplOK \in BOOLEAN :
          ncaResult' = NewCAReturn(gkOutcome, selectedKey, selectedID, tmplOK)
    /\ mainpc' = "done"
    /\ UNCHANGED <<pkiVars, tlsVars, revVars, bwVars, caller, opts, ctxCancelled, innerCancelled, generated, i,
                   highscore, mu, selectedKey, selectedID, wpc, wkey, wid, whs,
                   wout, errchan, gkOutcome, passed, sentLog, installs>>

\* the ambient context is cancelled (a timeout, a signal)
ExternalCancel ==
    /\ ~ctxCancelled
    /\ ctxCancelled' = TRUE
    /\ UNCHANGED <<pkiVars, tlsVars, revVars, bwVars, caller, opts, innerCancelled, generated, i, highscore, mu,
                   selectedKey, selectedID, wpc, wkey, wid, whs, wout, errchan,
                   mainpc, gkOutcome, ncaResult, passed, sentLog, installs>>

WorkerStep(w) ==
    \/ LoopHead(w) \/ GenKey(w) \/ Send(w) \/ CmdCallback(w)
    \/ CBEnter(w) \/ Lock(w) \/ Check(w) \/ SetKey(w) \/ SetID(w)
    \/ Unlock(w) \/ Swap(w) \/ Load(w) \/ CAS(w)

MainStep == GKReceive \/ GKReturn \/ NewCAFinish

\* the certificate world and the handshake before anything has happened
PKIIdle ==
    /\ cas = {}
    /\ obj = NoIdentity
    /\ disk = NoDisk
    /\ perr = ""

NoHandshake ==
    [state |-> "none", raw |-> <<>>, next |-> <<>>,
     res |-> PeerResult("none", "", "", <<>>)]

TLSIdle == hs = NoHandshake

\* no revocation check has been made
NoRevCheck == [state |-> "none", chain |-> <<>>, res |-> "none"]

\* a revocation store without records
EmptyRevocationDB == [fail |-> FALSE, recs |-> <<>>]

RevIdle ==
    /\ rv = NoRevCheck
    /\ revStore = EmptyRevocationDB
    /\ revLog = <<>>

\* no request, and no call of BandwidthAgreements
NoRequest ==
    [StorageNodeId |-> ZeroID, Signature |-> [len |-> 0, by |-> NoKey], Serial |-> 0,
     PayerAllocation |-> [SatelliteId |-> ZeroID, UplinkId |-> 0,
                          ExpirationUnixSec |-> 0,
                          Signature |-> [len |-> 0, by |-> NoKey]]]

NoCall ==
    [ctx |-> [peer |-> "none", chain |-> <<>>], rba |-> NoRequest, now |-> 0,
     before |-> {}, storeErr |-> "", res |-> Reply("none", "none", NilErr, <<>>)]

IdleCall == [pc |-> "idle", rba |-> NoRequest, storeErr |-> "",
             res |-> Reply("none", "none", NilErr, <<>>)]

\* no call whose memory is followed
NoMemory ==
    [state |-> "none", received |-> Unassigned, after |-> Unassigned,
     handed |-> Unassigned, res |-> Reply("none", "none", NilErr, <<>>)]

BWIdle ==
    /\ now = 0
    /\ agreements = {}
    /\ bw = NoCall
    /\ calls = [c \in 1 .. MaxCalls |-> IdleCall]
    /\ mem = NoMemory

Init == GenInit /\ PKIIdle /\ TLSIdle /\ RevIdle /\ BWIdle

Next ==
    \/ ExternalCancel
    \/ MainStep
    \/ \E w \in 1 .. (MaxConcurrency + 1) : WorkerStep(w)

Spec == Init /\ [][Next]_vars

\* every goroutine that can run is eventually run; nothing obliges the
\* ambient context to be cancelled
FairSpec ==
    /\ Spec
    /\ WF_vars(MainStep)
    /\ \A w \in 1 .. (MaxConcurrency + 1) : WF_vars(WorkerStep(w))

(***************************************************************************)
(* The certificate world: CAs, identities and their files.                 *)
(***************************************************************************)
\* no call of GenerateKeys is in progress
GenIdle ==
    /\ caller = "none"
    /\ opts = [Difficulty |-> 0, Concurrency |-> 0, Logger |-> FALSE,
               ParentCert |-> NoCert, ParentKey |-> NoKey]
    /\ ctxCancelled = FALSE
    /\ innerCancelled = FALSE
    /\ generated = 0
    /\ i = 0
    /\ highscore = 0
    /\ mu = 0
    /\ selectedKey = NoKey
    /\ selectedID = ZeroID
    /\ wpc = <<>>
    /\ wkey = <<>>
    /\ wid = <<>>
    /\ whs = <<>>
    /\ wout = <<>>
    /\ errchan = <<>>
    /\ mainpc = "idle"
    /\ gkOutcome = NoOutcome
    /\ ncaResult = [state |-> "none", err |-> NoOutcome, ca |-> NoCA]
    /\ passed = {}
    /\ sentLog = <<>>
    /\ installs = <<>>

\* the keys in use: a freshly generated key is none of them
UsedKeys ==
    {ca.Key : ca \in cas} \cup {obj.Key}

\* the keys NewIdentity may generate for a leaf
LeafKeys == {1, 6}

\* the (certificate, key) pairs NewCA may be given as parent: none, a CA
\* made earlier, or the CA that FullCAConfig.Load returned (CASetupConfig.Create)
Parents ==
    {<<NoCert, NoKey>>} \cup {<<ca.Cert, ca.Key>> : ca \in cas}
    \cup (IF obj.kind = "FullCAConfig.Load" THEN {<<obj.Cert, obj.Key>>} ELSE {})

\* pkcrypto.GeneratePrivateKey in the certificate world: a key never seen
\* before.  Which of the unused keys it is makes no difference there, so the
\* model takes them in order.
Fresh(K) == IF K = {} THEN {} ELSE {CHOOSE k \in K : \A j \in K : k <= j}

\* the keys GenerateKeys can end with under a floor of `difficulty`
Candidates(difficulty) ==
    {k \in ECDSAKeys \ UsedKeys :
        /\ GenerateKeyTry(k, minimumLoggableDifficulty).found
        /\ Difficulty(GenerateKeyTry(k, minimumLoggableDifficulty).id).d >= difficulty}

\* NewCA as a whole: GenerateKeys ends with a pair (k, id) that GenerateKey
\* returned at the minimum of 8 and whose difficulty the callback found to be
\* at least opts.Difficulty; the CA is built from that pair
PKINewCA ==
    /\ Cardinality(cas) < MaxCAs
    /\ \E difficulty \in {3, 9}, parent \in Parents :
          \E k \in Fresh(Candidates(difficulty)) :
             LET r == GenerateKeyTry(k, minimumLoggableDifficulty)
             IN cas' = cas \cup {BuildCA(r.k, r.id, parent[1], parent[2])}
    /\ perr' = ""
    /\ UNCHANGED <<obj, disk>>
    /\ UNCHANGED <<genVars, tlsVars, revVars, bwVars>>

\* ca.NewIdentity() for a CA that NewCA returned
PKINewIdentity ==
    /\ \E ca \in cas, leafKey \in Fresh(LeafKeys \ UsedKeys) :
          obj' = NewIdentity(ca, leafKey)
    /\ perr' = ""
    /\ UNCHANGED <<cas, disk>>
    /\ UNCHANGED <<genVars, tlsVars, revVars, bwVars>>

\* Config.Save of the current full identity
PKISaveIdentity ==
    /\ obj.kind \in {"NewIdentity", "FullIdentityFromPEM"}
    /\ disk' = ConfigSave(obj)
    /\ perr' = ""
    /\ UNCHANGED <<cas, obj>>
    /\ UNCHANGED <<genVars, tlsVars, revVars, bwVars>>

\* FullCAConfig.Save of a CA
PKISaveCA ==
    /\ \E ca \in cas : disk' = FullCASave(ca)
    /\ perr' = ""
    /\ UNCHANGED <<cas, obj>>
    /\ UNCHANGED <<genVars, tlsVars, revVars, bwVars>>

\* a file is removed
PKIRemoveFile ==
    /\ disk.certExists \/ disk.keyExists
    /\ \/ disk' = [disk EXCEPT !.certExists = FALSE, !.cert = <<>>]
       \/ disk' = [disk EXCEPT !.keyExists = FALSE, !.key = NoKey]
    /\ disk' # disk
    /\ UNCHANGED <<cas, obj, perr>>
    /\ UNCHANGED <<genVars, tlsVars, revVars, bwVars>>

\* a self-signed certificate with a key that is not an ECDSA key, and a leaf
\* it signed
RSACert == NewCert(7, NoKey, CATemplate, NoCert)
RSALeaf == NewCert(6, 7, LeafTemplate, RSACert)

\* the files found at the configured paths were written by someone else: a
\* chain under the RSA certificate
ForeignFiles ==
    {[certExists |-> TRUE, cert |-> WriteChain(<<RSALeaf, RSACert>>),
      keyExists |-> TRUE, key |-> 6]}

PKIForeignFile ==
    /\ disk \notin ForeignFiles
    /\ disk' \in ForeignFiles
    /\ UNCHANGED <<cas, obj, perr>>
    /\ UNCHANGED <<genVars, tlsVars, revVars, bwVars>>

\* FullIdentityFromPEM on the bytes of the two files
PKIFullIdentityFromPEM ==
    /\ disk.certExists /\ disk.keyExists
    /\ LET r == FullIdentityFromPEM(disk.cert, disk.key)
       IN /\ obj' = r.obj
          /\ perr' = r.err
    /\ UNCHANGED <<cas, disk>>
    /\ UNCHANGED <<genVars, tlsVars, revVars, bwVars>>

\* Config.Load
PKILoadIdentity ==
    /\ LET r == ConfigLoad(disk)
       IN /\ obj' = r.obj
          /\ perr' = r.err
    /\ UNCHANGED <<cas, disk>>
    /\ UNCHANGED <<genVars, tlsVars, revVars, bwVars>>

\* PeerCAConfig.Load
PKILoadPeerCA ==
    /\ LET r == PeerCALoad(disk)
       IN /\ obj' = r.obj
          /\ perr' = r.err
    /\ UNCHANGED <<cas, disk>>
    /\ UNCHANGED <<genVars, tlsVars, revVars, bwVars>>

\* FullCAConfig.Load
PKILoadFullCA ==
    /\ LET r == FullCALoad(disk)
       IN /\ obj' = r.obj
          /\ perr' = r.err
    /\ UNCHANGED <<cas, disk>>
    /\ UNCHANGED <<genVars, tlsVars, revVars, bwVars>>

\* the certificate chains a connected peer may have presented: the current
\* identity's, its leaf alone, or a chain under the RSA certificate
IdentityKinds == {"NewIdentity", "FullIdentityFromPEM", "PeerIdentityFromCerts"}

PeerChains ==
    (IF obj.kind \in IdentityKinds THEN {ChainRaw(obj), <<Raw(obj.Leaf)>>} ELSE {})
    \cup {<<RSALeaf, RSACert>>}

\* PeerIdentityFromPeer for the peer of a connection
PKIPeerIdentity ==
    /\ \E c \in PeerChains :
          LET r == PeerIdentityFromPeer(c)
          IN /\ obj' = r.obj
             /\ perr' = r.err
    /\ UNCHANGED <<cas, disk>>
    /\ UNCHANGED <<genVars, tlsVars, revVars, bwVars>>

PKIInit == GenIdle /\ PKIIdle /\ TLSIdle /\ RevIdle /\ BWIdle

PKINext ==
    \/ PKINewCA
    \/ PKINewIdentity
    \/ PKISaveIdentity
    \/ PKISaveCA
    \/ PKIRemoveFile
    \/ PKIForeignFile
    \/ PKIFullIdentityFromPEM
    \/ PKILoadIdentity
    \/ PKILoadPeerCA
    \/ PKILoadFullCA
    \/ PKIPeerIdentity

PKISpec == PKIInit /\ [][PKINext]_vars

(***************************************************************************)
(* A TLS handshake: one call of the composed verifier.                     *)
(***************************************************************************)
\* the certificates a peer may present
TLSRoot3 == NewCert(3, NoKey, CATemplate, NoCert)
TLSRoot4 == NewCert(4, NoKey, CATemplate, NoCert)
TLSCA3Under4 == NewCert(3, 4, CATemplate, TLSRoot4)
TLSLeaf == NewCert(1, 3, LeafTemplate, TLSRoot3)
TLSCerts == {TLSRoot3, TLSRoot4, TLSCA3Under4, TLSLeaf, RSACert}

\* the DER blobs of a raw chain: a certificate's, or bytes that do not parse
Blobs ==
    {[valid |-> TRUE, cert |-> c] : c \in TLSCerts}
    \cup {[valid |-> FALSE, cert |-> NoCert]}

\* the sequences over S of length at most n
SeqsUpTo(S, n) == UNION {[1 .. m -> S] : m \in 0 .. n}

RawChains == SeqsUpTo(Blobs, MaxChainLen)

\* the verifiers a pipeline may be composed of
VerifierPool ==
    {NilVerifier, VerifyPeerCertChains}
    \cup {verifyIdentity(id) : id \in {ZeroID, 512, 1536}}
    \cup {VerifyCAWhitelist(wl) :
            wl \in {[nil |-> TRUE, certs |-> <<>>],
                    [nil |-> FALSE, certs |-> <<>>],
                    [nil |-> FALSE, certs |-> <<TLSRoot4>>],
                    [nil |-> FALSE, certs |-> <<RSACert, TLSRoot3>>]}}

VerifierLists == SeqsUpTo(VerifierPool, MaxVerifiers)

\* the TLS library calls VerifyPeerCertificate with the peer's raw chain
Handshake ==
    /\ hs.state = "none"
    /\ \E rc \in RawChains, next \in VerifierLists :
          hs' = [state |-> "done", raw |-> rc, next |-> next,
                 res |-> VerifyPeerFunc(next, rc)]
    /\ UNCHANGED <<genVars, pkiVars, revVars, bwVars>>

TLSInit == GenIdle /\ PKIIdle /\ TLSIdle /\ RevIdle /\ BWIdle

TLSNext == Handshake

TLSSpec == TLSInit /\ [][TLSNext]_vars

(***************************************************************************)
(* The revocation check called on a chain, against a revocation store.    *)
(***************************************************************************)
\* the parsed chains the verifier may be called with
ParsedChains == SeqsUpTo(TLSCerts, MaxChainLen)

\* the states of the revocation store: failing, empty, or holding one record
\* under the raw bytes of a CA certificate
RevocationDBs ==
    {[fail |-> TRUE, recs |-> <<>>], [fail |-> FALSE, recs |-> <<>>]}
    \cup {[fail |-> FALSE,
           recs |-> [k \in {Raw(ca)} |-> Revocation(Raw(c), key)]] :
             ca \in {TLSRoot3, TLSRoot4}, c \in {TLSRoot3, TLSRoot4, TLSLeaf},
             key \in {3, 4}}

\* the pipeline calls the revocation verifier with the parsed chain
RevocationCheck ==
    /\ rv.state = "none"
    /\ \E chain \in ParsedChains, db \in RevocationDBs :
          rv' = [state |-> "done", chain |-> chain, db |-> db,
                 res |-> VerifyUnrevokedChainFunc(db, chain)]
    /\ UNCHANGED <<revStore, revLog>>
    /\ UNCHANGED <<genVars, pkiVars, tlsVars, bwVars>>

RevInit == GenIdle /\ PKIIdle /\ TLSIdle /\ RevIdle /\ BWIdle

RevNext == RevocationCheck

RevSpec == RevInit /\ [][RevNext]_vars

(***************************************************************************)
(* The revocation store over time: records are stored, handshakes go on.   *)
(***************************************************************************)
\* a second leaf of the CA TLSRoot3
TLSLeaf6 == NewCert(6, 3, LeafTemplate, TLSRoot3)

\* the chains peers present in these handshakes
PresentedChains ==
    {<<TLSLeaf, TLSRoot3>>, <<TLSLeaf6, TLSRoot3>>, <<TLSCA3Under4, TLSRoot4>>,
     <<TLSLeaf, TLSCA3Under4, TLSRoot4>>}

\* the store after a record was put for the chain's CA: it is kept under the
\* raw bytes of the CA certificate, in the place of the record that was
\* there
RevocationDBPut(db, chain, rev) ==
    LET k == Raw(chain[CAIndex])
    IN [db EXCEPT !.recs =
           [x \in (DOMAIN db.recs) \cup {k} |-> IF x = k THEN rev ELSE db.recs[x]]]

\* a revocation record naming a certificate of a chain, signed by the
\* chain's CA, is stored
RevStorePut ==
    /\ Len(revLog) < MaxRecords
    /\ \E chain \in PresentedChains, n \in {LeafIndex, CAIndex}, key \in {3, 4} :
          LET rev == Revocation(Raw(chain[n]), key)
          IN /\ RevocationVerify(rev, chain[CAIndex])
             /\ revStore' = RevocationDBPut(revStore, chain, rev)
             /\ revLog' = Append(revLog, [ca |-> chain[CAIndex], rev |-> rev])
    /\ UNCHANGED rv
    /\ UNCHANGED <<genVars, pkiVars, tlsVars, bwVars>>

\* a handshake: the verifier is called with the chain a peer presents,
\* against the store as it is now
RevStoreHandshake ==
    /\ \E chain \in PresentedChains :
          rv' = [state |-> "done", chain |-> chain, db |-> revStore,
                 res |-> VerifyUnrevokedChainFunc(revStore, chain),
                 at |-> Len(revLog)]
    /\ UNCHANGED <<revStore, revLog>>
    /\ UNCHANGED <<genVars, pkiVars, tlsVars, bwVars>>

RevStoreInit == GenIdle /\ PKIIdle /\ TLSIdle /\ RevIdle /\ BWIdle

RevStoreNext == RevStorePut \/ RevStoreHandshake

RevStoreSpec == RevStoreInit /\ [][RevStoreNext]_vars

(***************************************************************************)
(* The bandwidth-agreement service: one call after another.                *)
(***************************************************************************)
\* the contexts of a call: no gRPC peer, auth info that is not TLS info, a
\* peer chain of one certificate, a chain under a CA whose key is not an
\* ECDSA key, and the chain of the storage node 512
Contexts ==
    {[peer |-> "none", chain |-> <<>>],
     [peer |-> "notTLS", chain |-> <<>>],
     [peer |-> "tls", chain |-> <<TLSLeaf>>],
     [peer |-> "tls", chain |-> <<RSALeaf, RSACert>>],
     [peer |-> "tls", chain |-> <<TLSLeaf, TLSRoot3>>]}

\* the signatures a request may carry where key's signature is expected: too
\* short, long enough but not whole, whole, and whole but by another key
Signatures(key) ==
    {[len |-> signatureLength(PublicKeyFromPrivate(key)) - 1, by |-> key],
     [len |-> signatureLength(PublicKeyFromPrivate(key)), by |-> key],
     [len |-> 2 * signatureLength(PublicKeyFromPrivate(key)), by |-> key],
     [len |-> 2 * signatureLength(PublicKeyFromPrivate(key)), by |-> 6]}

Serials == 1 .. MaxSerial

Expirations == 1 .. MaxExp

Requests ==
    {[StorageNodeId |-> n, Signature |-> rs, Serial |-> ser,
      PayerAllocation |-> [SatelliteId |-> sat, UplinkId |-> u,
                           ExpirationUnixSec |-> e, Signature |-> ps]] :
        n \in {512, 1536}, rs \in Signatures(5), ser \in Serials,
        sat \in {Server.NodeID, 1024}, u \in UplinkIds, e \in Expirations,
        ps \in Signatures(2)}

\* what the store does at a call: whether it fails, and its dialect
Stores == [fault : BOOLEAN, dialect : {"sqlite", "postgres"}]

\* time passes
Tick ==
    /\ now < MaxNow
    /\ now' = now + 1
    /\ UNCHANGED <<genVars, pkiVars, tlsVars, revVars, agreements, bw, calls, mem>>

\* Server.BandwidthAgreements, one whole call
BandwidthAgreements ==
    /\ bw = NoCall
    /\ \E ctx \in Contexts, rba \in Requests, store \in Stores :
          LET r == BandwidthAgreementsChecks(Server, ctx, rba, now)
              c == CreateAgreement(agreements, rba, store)
          IN /\ bw' = [ctx |-> ctx, rba |-> rba, now |-> now,
                       before |-> agreements,
                       storeErr |-> IF r.state = "create" THEN c.kind ELSE "",
                       res |-> IF r.state = "create"
                               THEN BandwidthAgreementsSave(r, c) ELSE r]
             /\ agreements' = IF r.state = "create" THEN c.agreements ELSE agreements
    /\ UNCHANGED <<genVars, pkiVars, tlsVars, revVars, now, calls, mem>>

\* the store holds the agreements of earlier calls
BWInit ==
    /\ GenIdle /\ PKIIdle /\ TLSIdle /\ RevIdle
    /\ now = 0
    /\ agreements \in SUBSET Serials
    /\ bw = NoCall
    /\ calls = [c \in 1 .. MaxCalls |-> IdleCall]
    /\ mem = NoMemory

BWNext == Tick \/ BandwidthAgreements

BWSpec == BWInit /\ [][BWNext]_vars

(***************************************************************************)
(* The bandwidth-agreement service: calls in flight together.  A call      *)
(* makes its checks, and then calls the store, which serves one call at a  *)
(* time.                                                                   *)
(***************************************************************************)
\* the context of the storage node 512
NodeContext == [peer |-> "tls", chain |-> <<TLSLeaf, TLSRoot3>>]

\* the valid request with the serial ser
ValidRequest(ser) ==
    [StorageNodeId |-> 512,
     Signature |-> [len |-> 2 * signatureLength(PublicKeyFromPrivate(5)), by |-> 5],
     Serial |-> ser,
     PayerAllocation |-> [SatelliteId |-> Server.NodeID, UplinkId |-> 4,
                          ExpirationUnixSec |-> 1,
                          Signature |-> [len |-> 2 * signatureLength(Server.pkey),
                                         by |-> 2]]]

\* call c arrives and makes its checks; the calls are numbered as they arrive
BWBegin(c) ==
    /\ calls[c].pc = "idle"
    /\ c > 1 => calls[c - 1].pc # "idle"
    /\ \E ser \in Serials :
          LET rba == ValidRequest(ser)
              r == BandwidthAgreementsChecks(Server, NodeContext, rba, now)
          IN calls' = [calls EXCEPT ![c] =
                          [pc |-> IF r.state = "create" THEN "create" ELSE "done",
                           rba |-> rba, storeErr |-> "", res |-> r]]
    /\ UNCHANGED <<genVars, pkiVars, tlsVars, revVars, now, agreements, bw, mem>>

\* call c calls the store and replies
BWCreate(c) ==
    /\ calls[c].pc = "create"
    /\ \E store \in Stores :
          LET k == CreateAgreement(agreements, calls[c].rba, store)
          IN /\ calls' = [calls EXCEPT ![c] =
                            [pc |-> "done", rba |-> calls[c].rba,
                             storeErr |-> k.kind,
                             res |-> BandwidthAgreementsSave(calls[c].res, k)]]
             /\ agreements' = k.agreements
    /\ UNCHANGED <<genVars, pkiVars, tlsVars, revVars, now, bw, mem>>

ReplayInit == GenIdle /\ PKIIdle /\ TLSIdle /\ RevIdle /\ BWIdle

ReplayNext ==
    \/ Tick
    \/ \E c \in 1 .. MaxCalls : BWBegin(c)
    \/ \E c \in 1 .. MaxCalls : BWCreate(c)

ReplaySpec == ReplayInit /\ [][ReplayNext]_vars

(***************************************************************************)
(* The bandwidth-agreement service: the memory of one call.                *)
(***************************************************************************)
\* the certificates a message may carry: none, or a chain
CertLists == {NilCerts, <<Raw(TLSLeaf), Raw(TLSRoot3)>>}

\* the request with its two lists of certificates
WithCerts(req, certs, payerCerts) ==
    [StorageNodeId |-> req.StorageNodeId, Signature |-> req.Signature,
     Serial |-> req.Serial, Certs |-> certs,
     PayerAllocation |->
        [SatelliteId |-> req.PayerAllocation.SatelliteId,
         UplinkId |-> req.PayerAllocation.UplinkId,
         ExpirationUnixSec |-> req.PayerAllocation.ExpirationUnixSec,
         Signature |-> req.PayerAllocation.Signature,
         Certs |-> payerCerts]]

\* Server.BandwidthAgreements, one whole call, with the message in memory:
\* verifySignature is called once the checks before it have passed, and
\* CreateAgreement is handed the pointer rba, that is the caller's message
\* as it is by then
MemBandwidthAgreements ==
    /\ mem.state = "none"
    /\ \E ctx \in Contexts, req \in Requests, certs \in CertLists,
          payerCerts \in CertLists, store \in Stores :
          LET rba == WithCerts(req, certs, payerCerts)
              r == BandwidthAgreementsChecks(Server, ctx, rba, now)
              v == verifySignatureMemory(Server, Memory(rba))
              after == IF r.log # <<>> THEN v.mem ELSE Memory(rba)
              c == CreateAgreement(agreements, after.rba, store)
          IN /\ mem' = [state |-> "done", received |-> rba, after |-> after,
                        handed |-> IF r.state = "create" THEN after.rba
                                   ELSE Unassigned,
                        res |-> IF r.state = "create"
                                THEN BandwidthAgreementsSave(r, c) ELSE r]
             /\ agreements' = IF r.state = "create" THEN c.agreements ELSE agreements
    /\ UNCHANGED <<genVars, pkiVars, tlsVars, revVars, now, bw, calls>>

MemInit == GenIdle /\ PKIIdle /\ TLSIdle /\ RevIdle /\ BWIdle

MemNext == Tick \/ MemBandwidthAgreements

MemSpec == MemInit /\ [][MemNext]_vars

(***************************************************************************)
(* Properties of the generator and of NewCA.                               *)
(***************************************************************************)
\* C1: whenever NewCA returns a CA, the CA's key is one of the keys that were
\* handed to the callback, and the difficulty of the CA's node ID is at least
\* opts.Difficulty and at least the generator's minimum of 8.
C1_ReturnedKeyMeetsFloor ==
    ncaResult.state = "ok" =>
        /\ \E p \in passed : p[1] = ncaResult.ca.Key
        /\ Difficulty(ncaResult.ca.ID).ok
        /\ Difficulty(ncaResult.ca.ID).d >= opts.Difficulty
        /\ Difficulty(ncaResult.ca.ID).d >= minimumLoggableDifficulty

\* a CA was returned by a call with two workers and a floor of 9, in which a
\* candidate below the floor had been handed to the callback as well
C1_Witness ==
    /\ ncaResult.state = "ok"
    /\ Concurrency = 2
    /\ opts.Difficulty = 9
    /\ \E p \in passed : Difficulty(p[2]).d < opts.Difficulty

\* C2: the selected-key slot is written at most once, by the first worker that
\* finds it empty under the mutex; outside that worker's two writes the slot
\* holds a key together with that key's own node ID, and the pair the CA is
\* built from is one pair that was handed to the callback.
C2_SlotWrittenOnce ==
    /\ Len(installs) <= 1
    /\ (selectedKey # NoKey /\ \A w \in Workers : wpc[w] # "setid")
          => <<selectedKey, selectedID>> \in passed
    /\ ncaResult.state = "ok"
          => /\ <<ncaResult.ca.Key, ncaResult.ca.ID>> \in passed
             /\ ncaResult.ca.Key = selectedKey
             /\ ncaResult.ca.ID = selectedID

\* two workers each found a key meeting the floor, with different keys; one
\* installed its key and the other was discarded
C2_Witness ==
    /\ ncaResult.state = "ok"
    /\ \E w1 \in Workers, w2 \in Workers :
          /\ w1 # w2
          /\ installs = <<w1>>
          /\ wout[w1] = DoneOutcome /\ wout[w2] = DoneOutcome
          /\ wpc[w1] = "exit" /\ wpc[w2] = "exit"
          /\ wkey[w1] # wkey[w2]

\* C3: what GenerateKeys returns is the outcome of the first worker that sent
\* one; it is success only if a callback returned done, and it is never the
\* cancellation error that GenerateKeys' own cancel() causes.
C3_FirstOutcomeReturned ==
    mainpc # "wait" =>
        /\ Len(sentLog) >= 1
        /\ gkOutcome = sentLog[1].out
        /\ gkOutcome # CancelErr("internal")
        /\ (caller = "NewCA" /\ gkOutcome.kind = "done") => selectedKey # NoKey
        /\ (caller = "cmdKeyGenerate") => gkOutcome.kind # "done"

\* GenerateKeys has returned the first outcome, and a second worker has since
\* reported the cancellation that the return caused
C3_Witness ==
    /\ mainpc = "returned"
    /\ Len(sentLog) = 2
    /\ sentLog[2].out = CancelErr("internal")
    /\ gkOutcome = sentLog[1].out
    /\ gkOutcome.kind = "done"

\* C4 (the statement as claimed): for every concurrency c >= 0, once the
\* ambient context is cancelled GenerateKeys eventually returns.
C4_CancelledEventuallyReturns == ctxCancelled ~> (mainpc # "wait")

\* C5: NewCA returns a CA only if GenerateKeys returned success; when
\* GenerateKeys returns an error, NewCA returns that error and no CA, whether
\* or not a key had been installed in the slot.
C5_ErrorMeansNoCA ==
    mainpc = "done" =>
        /\ ncaResult.state = "ok" => gkOutcome.kind = "done"
        /\ gkOutcome.kind # "done"
              => ncaResult = [state |-> "error", err |-> gkOutcome, ca |-> NoCA]

\* NewCA returned an error although a worker had installed a selected key
C5_Witness ==
    /\ mainpc = "done"
    /\ ncaResult.state = "error"
    /\ gkOutcome.kind # "done"
    /\ selectedKey # NoKey
    /\ selectedID # ZeroID

(***************************************************************************)
(* Properties of the constructors and of the certificate chains.           *)
(***************************************************************************)
\* the node ID derived from the public key of a certificate
IDOfCert(cert) == NodeIDFromKey(cert.pub)

\* the CA certificate of the current object, whichever constructor built it
OwnCACert == IF obj.kind \in IdentityKinds THEN obj.CA ELSE obj.Cert

\* C6: every CA that NewCA returned and every identity or CA built by
\* NewIdentity, FullIdentityFromPEM, PeerIdentityFromCerts, PeerCAConfig.Load
\* or FullCAConfig.Load has as ID the node ID derived from the public key of
\* its own CA certificate; so objects with the same CA public key have the
\* same ID.
C6_IDFromOwnCAKey ==
    /\ \A ca \in cas : IDOfCert(ca.Cert) = [ok |-> TRUE, id |-> ca.ID]
    /\ obj.kind # "none" => IDOfCert(OwnCACert) = [ok |-> TRUE, id |-> obj.ID]
    /\ \A ca \in cas :
          (obj.kind # "none" /\ OwnCACert.pub = ca.Cert.pub) => obj.ID = ca.ID

\* PeerCAConfig.Load has loaded the file of a CA that is nested under a
\* parent, whose key and node ID differ from the CA's
C6_Witness ==
    /\ obj.kind = "PeerCAConfig.Load"
    /\ Len(obj.RestChain) >= 1
    /\ obj.RestChain[1].pub # obj.Cert.pub
    /\ \E ca \in cas : ca.Cert = obj.Cert /\ ca.ID = obj.ID

\* C7 (the statement as claimed): the chain [leaf, CA, rest...] of every
\* identity that NewIdentity makes for a CA that NewCA returned - self-signed
\* or nested under any parent CA - passes VerifyPeerCertChains.
C7_NewIdentityChainVerifies ==
    obj.kind = "NewIdentity" => verifyChainSignatures(ChainRaw(obj))

(***************************************************************************)
(* Properties of the verification pipeline.                                *)
(***************************************************************************)
\* the parsed chain of the handshake
HsChain == CertsFromDER(hs.raw).certs

\* the position of the verifier that was called last
LastInvoked == hs.res.invoked[Len(hs.res.invoked)]

\* whether the verifier at position n was called
Invoked(n) == \E a \in 1 .. Len(hs.res.invoked) : hs.res.invoked[a] = n

\* what the verifier at position n, which was called, came to: every call
\* but the last returned nil, the last one decided the result
Outcome(n) ==
    IF n # LastInvoked \/ hs.res.state = "ok" THEN "ok"
    ELSE IF hs.res.state = "panic" THEN "panic"
    ELSE hs.res.cause

\* C8: the composed verifier calls the non-nil verifiers in list order on the
\* parsed chain and skips nil entries; it stops at the first one that fails,
\* calls none after it and returns its error wrapped under VerifyPeerCert; it
\* succeeds iff the chain parses and every non-nil verifier succeeds; a chain
\* that does not parse gives VerifyPeerCert with no verifier called.
C8_PipelineInOrder ==
    hs.state = "done" =>
        LET next == hs.next
            res == hs.res
            Fails(n) == next[n] # NilVerifier /\ RunVerifier(next[n], HsChain) # "ok"
        IN IF ~CertsFromDER(hs.raw).ok
           THEN res = PeerResult("error", "VerifyPeerCert", "Parse", <<>>)
           ELSE /\ \A n \in 1 .. Len(next) :
                      Invoked(n) <=> /\ next[n] # NilVerifier
                                     /\ \A m \in 1 .. (n - 1) : ~Fails(m)
                /\ \A a \in 1 .. Len(res.invoked), b \in 1 .. Len(res.invoked) :
                      a < b => res.invoked[a] < res.invoked[b]
                /\ res.state = "ok" <=> \A n \in 1 .. Len(next) : ~Fails(n)
                /\ res.state # "ok" =>
                      /\ Fails(LastInvoked)
                      /\ RunVerifier(next[LastInvoked], HsChain) # "panic"
                            => res = PeerResult("error", "VerifyPeerCert",
                                                RunVerifier(next[LastInvoked], HsChain),
                                                res.invoked)

\* a pipeline of two non-nil verifiers whose first returned an error: the
\* second was not called
C8_Witness ==
    /\ hs.state = "done"
    /\ Len(hs.next) = 2
    /\ hs.next[1] # NilVerifier /\ hs.next[2] # NilVerifier
    /\ hs.res.state = "error"
    /\ hs.res.class = "VerifyPeerCert"
    /\ hs.res.cause = "VerifyCertificateChain"
    /\ hs.res.invoked = <<1>>

\* the positions at which verifyIdentity was called
IdentityCalls ==
    {n \in 1 .. Len(hs.next) : Invoked(n) /\ hs.next[n].v = "verifyIdentity"}

\* expected_id is the node ID recomputed from the key of chain[CAIndex]
MatchesCA(id) ==
    /\ Len(HsChain) >= CAIndex
    /\ IDOfCert(HsChain[CAIndex]).ok
    /\ IDOfCert(HsChain[CAIndex]).id = id

\* C9 (the statement as claimed), on chains that have a certificate at
\* CAIndex: VerifyIdentity(expected_id) passes iff expected_id is the all-zero
\* ID or equals the node ID recomputed from the public key of chain[CAIndex],
\* and for any other expected_id it fails with the IdentityMismatch kind.
C9_Original ==
    (hs.state = "done" /\ Len(HsChain) >= CAIndex) =>
        \A n \in IdentityCalls :
            /\ Outcome(n) = "ok" <=> (hs.next[n].id = ZeroID \/ MatchesCA(hs.next[n].id))
            /\ Outcome(n) # "ok" => Outcome(n) = "IdentityMismatch"

\* C9 (amended): VerifyIdentity(expected_id) passes iff expected_id is the
\* all-zero ID or the key of chain[CAIndex] is an ECDSA key and expected_id
\* equals the node ID recomputed from it.  For any other expected_id it fails
\* with the IdentityMismatch kind when that key is an ECDSA key and with the
\* node-ID error of NodeIDFromKey when it is not; on a chain of fewer than two
\* certificates it does not return at all (index out of range).
C9_IdentityCheck ==
    hs.state = "done" =>
        \A n \in IdentityCalls :
            /\ Outcome(n) = "ok" <=> (hs.next[n].id = ZeroID \/ MatchesCA(hs.next[n].id))
            /\ Outcome(n) # "ok" =>
                  Outcome(n) = IF Len(HsChain) < CAIndex THEN "panic"
                               ELSE IF HsChain[CAIndex].pub.kind = "ecdsa"
                               THEN "IdentityMismatch"
                               ELSE "NodeID"

\* verifyIdentity was called with a non-zero ID on a chain whose CA has an
\* ECDSA key with another node ID, and failed
C9_Witness ==
    /\ hs.state = "done"
    /\ \E n \in IdentityCalls :
          /\ hs.next[n].id # ZeroID
          /\ Len(HsChain) >= CAIndex
          /\ IDOfCert(HsChain[CAIndex]).ok
          /\ IDOfCert(HsChain[CAIndex]).id # hs.next[n].id
          /\ Outcome(n) = "IdentityMismatch"

\* the positions at which a verifier made by VerifyCAWhitelist of a
\* non-empty whitelist was called
WhitelistCalls ==
    {n \in 1 .. Len(hs.next) :
        /\ Invoked(n)
        /\ hs.next[n].v = "VerifyCAWhitelist"
        /\ hs.next[n].cas # <<>>}

\* C10: for a non-empty whitelist and a chain that has a certificate at
\* CAIndex, VerifyCAWhitelist(cas) passes iff at least one CA of the
\* whitelist verifies the signature of chain[CAIndex]; when none does it
\* fails with the kind VerifyCAWhitelist.
C10_WhitelistMatch ==
    (hs.state = "done" /\ Len(HsChain) >= CAIndex) =>
        \A n \in WhitelistCalls :
            LET cas_ == hs.next[n].cas
                some == \E m \in 1 .. Len(cas_) :
                            verifyCertSignature(cas_[m], HsChain[CAIndex])
            IN /\ Outcome(n) = "ok" <=> some
               /\ ~some => Outcome(n) = "VerifyCAWhitelist"

\* a whitelist of two CAs whose first does not verify chain[CAIndex] and
\* whose second does: the verifier passed
C10_Witness ==
    /\ hs.state = "done"
    /\ Len(HsChain) >= CAIndex
    /\ \E n \in WhitelistCalls :
          /\ Len(hs.next[n].cas) = 2
          /\ ~verifyCertSignature(hs.next[n].cas[1], HsChain[CAIndex])
          /\ verifyCertSignature(hs.next[n].cas[2], HsChain[CAIndex])
          /\ Outcome(n) = "ok"

\* the pipeline next without its entry at position n
WithoutVerifier(next, n) ==
    [m \in 1 .. (Len(next) - 1) |-> IF m < n THEN next[m] ELSE next[m + 1]]

\* the verifiers VerifyCAWhitelist makes of a nil whitelist and of a
\* whitelist of length 0
EmptyWhitelistVerifiers ==
    {VerifyCAWhitelist([nil |-> TRUE, certs |-> <<>>]),
     VerifyCAWhitelist([nil |-> FALSE, certs |-> <<>>])}

\* C11 (the statement as claimed): VerifyCAWhitelist(cas) with cas nil or of
\* length 0 is a no-op: a pipeline that contains it admits exactly the chains
\* that the same pipeline without it admits.
C11_EmptyWhitelistNoOp ==
    hs.state = "done" =>
        \A n \in 1 .. Len(hs.next) :
            hs.next[n] \in EmptyWhitelistVerifiers =>
                (hs.res.state = "ok"
                    <=> VerifyPeerFunc(WithoutVerifier(hs.next, n), hs.raw).state = "ok")

(***************************************************************************)
(* Properties of the revocation check.                                     *)
(***************************************************************************)
\* the record the store holds for the CA certificate of the checked chain
RvRecord == rv.db.recs[Raw(rv.chain[CAIndex])]

RvHasRecord == ~rv.db.fail /\ Raw(rv.chain[CAIndex]) \in DOMAIN rv.db.recs

\* the record names the CA certificate or the leaf certificate of the chain
RvNamesChain ==
    RvRecord.CertHash \in {Raw(rv.chain[CAIndex]), Raw(rv.chain[LeafIndex])}

\* C12: on every chain that has a leaf and a CA certificate and for every
\* state of the store, VerifyUnrevokedChain passes when the store has no
\* record for the chain's CA, fails with ExtensionError when the lookup
\* fails, fails with RevokedCert when the record names the CA's or the leaf's
\* DER and its signature verifies against the CA, with ExtensionError when
\* it names one of them and its signature does not verify, and passes when
\* the record names neither, whatever its signature.
C12_RevocationDecision ==
    (rv.state = "done" /\ Len(rv.chain) >= CAIndex) =>
        rv.res = IF rv.db.fail THEN "Extension"
                 ELSE IF ~RvHasRecord THEN "ok"
                 ELSE IF ~RvNamesChain THEN "ok"
                 ELSE IF PublicKeyFromPrivate(RvRecord.signer) = rv.chain[CAIndex].pub
                 THEN "RevokedCert"
                 ELSE "Extension"

\* the store holds a record naming the chain's leaf, signed by the chain's
\* CA: the verifier failed with RevokedCert
C12_Witness ==
    /\ rv.state = "done"
    /\ Len(rv.chain) >= CAIndex
    /\ RvHasRecord
    /\ RvRecord.CertHash = Raw(rv.chain[LeafIndex])
    /\ RvRecord.CertHash # Raw(rv.chain[CAIndex])
    /\ PublicKeyFromPrivate(RvRecord.signer) = rv.chain[CAIndex].pub
    /\ rv.res = "RevokedCert"

(***************************************************************************)
(* Properties of the bandwidth-agreement service.                          *)
(***************************************************************************)
\* the call has ended, by returning or by panicking
BwDone == bw.res.state \in {"returned", "panic"}

BwReturned == bw.res.state = "returned"

\* the context carries the identity of a peer
BwHasIdentity ==
    /\ bw.ctx.peer = "tls"
    /\ Len(bw.ctx.chain) >= 2
    /\ bw.ctx.chain[CAIndex].pub.kind = "ecdsa"

\* the storage-node ID of the request is the caller's
BwNodeOK ==
    /\ BwHasIdentity
    /\ bw.rba.StorageNodeId = IDOfCert(bw.ctx.chain[CAIndex]).id

\* the satellite ID of the request is the server's
BwSatOK == bw.rba.PayerAllocation.SatelliteId = Server.NodeID

\* the expiration time of the request and the time of the call, in ticks
BwExp == bw.rba.PayerAllocation.ExpirationUnixSec * TicksPerSec

\* the request passes the server's expiration test
BwExpirationPassed == ~(BwExp < bw.now)

\* the uplink database resolves the renter's key to an ECDSA key
BwUplink == GetPublicKey(bw.rba.PayerAllocation.UplinkId)

BwRenterKeyOK ==
    /\ ~BwUplink.err
    /\ BwUplink.PublicKey.valid
    /\ BwUplink.PublicKey.key \in ECDSAKeys

BwRenterKey == PublicKeyFromPrivate(BwUplink.PublicKey.key)

\* the lengths of the two signatures suffice
BwRenterLenOK == bw.rba.Signature.len >= CurveBitLen \div 8

BwPayerLenOK == bw.rba.PayerAllocation.Signature.len >= CurveBitLen \div 8

\* the two signatures verify
BwRenterSigOK == CryptoVerify(bw.rba.Signature, BwRenterKey)

BwPayerSigOK == CryptoVerify(bw.rba.PayerAllocation.Signature, Server.pkey)

\* the request passes every check of the handler
BwAllChecksPassed ==
    /\ BwNodeOK
    /\ BwSatOK
    /\ BwExpirationPassed
    /\ BwRenterKeyOK
    /\ BwRenterSigOK
    /\ BwPayerSigOK

\* the positions of step in the log of the call
BwSteps(step) == {n \in 1 .. Len(bw.res.log) : bw.res.log[n] = step}

\* C13: in every call of BandwidthAgreements the reply status is OK iff the
\* returned error is nil iff every check passed and CreateAgreement
\* succeeded; CreateAgreement is called at most once, and only after both
\* signatures have verified; a call that does not reply OK leaves the
\* agreement store as it was.
C13_OKIffStored ==
    BwDone =>
        /\ BwReturned =>
              /\ bw.res.status = "OK" <=> bw.res.err = NilErr
              /\ bw.res.status = "OK" <=> (BwAllChecksPassed /\ bw.storeErr = "")
        /\ ~BwReturned => ~BwAllChecksPassed
        /\ Cardinality(BwSteps("CreateAgreement")) <= 1
        /\ \A n \in BwSteps("CreateAgreement") :
              /\ BwRenterSigOK /\ BwPayerSigOK
              /\ \E a \in BwSteps("VerifyRenter") : a < n
              /\ \E a \in BwSteps("VerifyPayer") : a < n
        /\ bw.res.status # "OK" => agreements = bw.before
        /\ bw.res.status = "OK" => agreements = bw.before \cup {bw.rba.Serial}

\* a call whose request passed every check and whose agreement the store
\* took: it replied OK with a nil error
C13_Witness ==
    /\ BwReturned
    /\ BwAllChecksPassed
    /\ bw.res.status = "OK"
    /\ bw.res.err = NilErr
    /\ bw.rba.Serial \notin bw.before
    /\ bw.rba.Serial \in agreements

\* the context carries no peer identity: no gRPC peer, auth info that is not
\* TLS info, or a peer chain of fewer than two certificates
BwNoPeerIdentity ==
    \/ bw.ctx.peer = "none"
    \/ bw.ctx.peer = "notTLS"
    \/ bw.ctx.peer = "tls" /\ Len(bw.ctx.chain) < 2

\* C14 (the statement as claimed): when the context of the call carries no
\* peer identity, BandwidthAgreements returns with the status REJECTED and a
\* BadID error, and stores nothing.
C14_NoIdentityRejected ==
    (BwDone /\ BwNoPeerIdentity) =>
        /\ BwReturned
        /\ bw.res.status = "REJECTED"
        /\ bw.res.err = <<"ErrBadID">>
        /\ agreements = bw.before

\* the errors of the signature check
SignatureErrors ==
    {<<"ErrRenter", "ErrVerify">>, <<"Error">>, <<"ErrUnsupportedKey">>,
     <<"ErrRenter", "ErrSigLen">>, <<"ErrPayer", "ErrSigLen">>,
     <<"ErrPayer", "ErrVerify">>}

\* C15: a call that returns has made its checks in the order storage-node ID
\* against the caller's ID, satellite ID, expiration, signatures, store: the
\* first check that fails gives the error (BadID, ErrPayer, ErrPayer wrapping
\* Expired, an error of the signature check) with the status REJECTED, and
\* after it neither the uplink database nor the agreement store is called.
C15_ChecksInOrder ==
    BwReturned =>
        IF ~BwNodeOK
        THEN bw.res = Reply("returned", "REJECTED", <<"ErrBadID">>, <<>>)
        ELSE IF ~BwSatOK
        THEN bw.res = Reply("returned", "REJECTED", <<"ErrPayer">>, <<>>)
        ELSE IF ~BwExpirationPassed
        THEN bw.res = Reply("returned", "REJECTED", <<"ErrPayer", "ErrExpired">>, <<>>)
        ELSE IF ~(BwRenterKeyOK /\ BwRenterSigOK /\ BwPayerSigOK)
        THEN /\ bw.res.status = "REJECTED"
             /\ bw.res.err \in SignatureErrors
             /\ bw.res.log[1] = "GetPublicKey"
             /\ BwSteps("CreateAgreement") = {}
        ELSE BwSteps("CreateAgreement") = {Len(bw.res.log)}

\* a request of the caller's with a foreign satellite ID, already expired,
\* from an unknown uplink: it was rejected with ErrPayer alone and no store
\* was called
C15_Witness ==
    /\ BwReturned
    /\ BwNodeOK
    /\ ~BwSatOK
    /\ ~BwExpirationPassed
    /\ ~BwRenterKeyOK
    /\ bw.res = Reply("returned", "REJECTED", <<"ErrPayer">>, <<>>)

\* C16 (the statement as claimed): a request passes the expiration check
\* only if its expiration time is strictly greater than the current time;
\* whenever the expiration time is at or before the current time, the time
\* of the call itself included, the reply is REJECTED with ErrPayer wrapping
\* Expired and nothing is stored.
C16_ExpiredRejected ==
    (BwReturned /\ BwNodeOK /\ BwSatOK /\ BwExp <= bw.now) =>
        /\ bw.res.status = "REJECTED"
        /\ bw.res.err = <<"ErrPayer", "ErrExpired">>
        /\ agreements = bw.before

\* the call has returned and had gone as far as the signature check
BwAtSignatureCheck ==
    /\ BwReturned
    /\ BwNodeOK
    /\ BwSatOK
    /\ BwExpirationPassed

\* C17 (the statement as claimed): both length checks come before any
\* verification: a request whose renter signature or satellite signature is
\* too short is rejected with SigLen (under ErrRenter, under ErrPayer)
\* whether or not the renter's signature verifies, and signatures are
\* verified only on requests whose two lengths suffice.
C17_Original ==
    (BwAtSignatureCheck /\ BwRenterKeyOK) =>
        /\ ~BwRenterLenOK => bw.res.err = <<"ErrRenter", "ErrSigLen">>
        /\ (BwRenterLenOK /\ ~BwPayerLenOK) => bw.res.err = <<"ErrPayer", "ErrSigLen">>
        /\ BwSteps("VerifyRenter") \cup BwSteps("VerifyPayer") # {}
              => (BwRenterLenOK /\ BwPayerLenOK)

\* C17 (amended): each signature is measured before it is verified, and the
\* renter's signature is verified before the satellite's is measured.  A
\* request whose renter signature is too short is rejected with ErrRenter
\* wrapping SigLen and nothing is verified; one whose renter signature is
\* long enough but does not verify is rejected with ErrRenter wrapping
\* Verify whatever the length of the satellite's signature; one whose
\* satellite signature is too short is rejected with ErrPayer wrapping
\* SigLen only when the renter's signature has verified; the satellite's
\* signature is verified only when both lengths suffice and the renter's
\* signature has verified.
C17_LengthBeforeOwnVerification ==
    (BwAtSignatureCheck /\ BwRenterKeyOK) =>
        /\ ~BwRenterLenOK =>
              /\ bw.res.err = <<"ErrRenter", "ErrSigLen">>
              /\ bw.res.status = "REJECTED"
              /\ BwSteps("VerifyRenter") \cup BwSteps("VerifyPayer") = {}
        /\ BwSteps("VerifyRenter") # {} <=> BwRenterLenOK
        /\ (BwRenterLenOK /\ ~BwRenterSigOK) =>
              /\ bw.res.err = <<"ErrRenter", "ErrVerify">>
              /\ bw.res.status = "REJECTED"
        /\ (BwRenterSigOK /\ ~BwPayerLenOK) =>
              /\ bw.res.err = <<"ErrPayer", "ErrSigLen">>
              /\ bw.res.status = "REJECTED"
        /\ BwSteps("VerifyPayer") # {} <=> (BwRenterSigOK /\ BwPayerLenOK)

\* a request whose renter signature is long enough but does not verify and
\* whose satellite signature is too short: it was rejected with ErrRenter
\* wrapping Verify
C17_Witness ==
    /\ BwAtSignatureCheck
    /\ BwRenterKeyOK
    /\ BwRenterLenOK
    /\ ~BwRenterSigOK
    /\ ~BwPayerLenOK
    /\ bw.res.err = <<"ErrRenter", "ErrVerify">>
    /\ BwSteps("VerifyRenter") # {}

\* C18 (the statement as claimed): every failure to resolve the renter's
\* public key - the uplink database's error, bytes that do not parse, a key
\* that is not an ECDSA key - makes the call return ErrRenter wrapping Verify
\* with the status REJECTED.
C18_Original ==
    (BwAtSignatureCheck /\ ~BwRenterKeyOK) =>
        /\ bw.res.status = "REJECTED"
        /\ bw.res.err = <<"ErrRenter", "ErrVerify">>

\* C18 (amended): every failure to resolve the renter's public key makes the
\* call return with the status REJECTED and stores nothing; the error is
\* ErrRenter wrapping Verify for an error of the uplink database, the
\* package's own Error class for bytes that do not parse, and UnsupportedKey
\* for a key that is not an ECDSA key.
C18_KeyResolutionErrors ==
    (BwAtSignatureCheck /\ ~BwRenterKeyOK) =>
        /\ bw.res.status = "REJECTED"
        /\ agreements = bw.before
        /\ bw.res.err = IF BwUplink.err THEN <<"ErrRenter", "ErrVerify">>
                        ELSE IF ~BwUplink.PublicKey.valid THEN <<"Error">>
                        ELSE <<"ErrUnsupportedKey">>

\* the uplink's key is stored as bytes that do not parse: the call was
\* rejected with the package's Error class
C18_Witness ==
    /\ BwAtSignatureCheck
    /\ ~BwUplink.err
    /\ ~BwUplink.PublicKey.valid
    /\ bw.res.status = "REJECTED"
    /\ bw.res.err = <<"Error">>

\* C19: when CreateAgreement fails with a unique-constraint violation the
\* call returns ErrPayer wrapping Serial and the status stays REJECTED; when
\* it fails otherwise the status is FAIL and the error is ErrPayer without
\* Serial; in neither case is the status OK.
C19_StoreFailure ==
    (BwReturned /\ bw.storeErr # "") =>
        /\ bw.storeErr = "unique" =>
              /\ bw.res.status = "REJECTED"
              /\ bw.res.err = <<"ErrPayer", "ErrSerial">>
        /\ bw.storeErr # "unique" =>
              /\ bw.res.status = "FAIL"
              /\ bw.res.err = <<"ErrPayer">>
        /\ bw.res.status # "OK"

\* a valid request whose serial the store already holds: the call returned
\* ErrPayer wrapping Serial with the status REJECTED
C19_Witness ==
    /\ BwReturned
    /\ bw.storeErr = "unique"
    /\ bw.rba.Serial \in bw.before
    /\ bw.res.status = "REJECTED"
    /\ bw.res.err = <<"ErrPayer", "ErrSerial">>

(***************************************************************************)
(* Properties of calls in flight together.                                 *)
(***************************************************************************)
\* the calls with the serial ser that have replied after the store took or
\* refused their agreement
Answered(ser) ==
    {c \in 1 .. MaxCalls :
        /\ calls[c].pc = "done"
        /\ calls[c].rba.Serial = ser
        /\ calls[c].res.log # <<>>
        /\ calls[c].res.log[Len(calls[c].res.log)] = "CreateAgreement"
        /\ calls[c].storeErr # "other"}

\* C20: of the calls that carry the same valid request, in any order and
\* interleaving, against a store that refuses a second agreement with the
\* same serial, exactly one replies OK and every other one returns ErrPayer
\* wrapping Serial (with the status REJECTED).
C20_OneAgreementPerSerial ==
    \A ser \in Serials :
        Answered(ser) # {} =>
            \E c \in Answered(ser) :
                /\ calls[c].res.status = "OK"
                /\ calls[c].res.err = NilErr
                /\ ser \in agreements
                /\ \A d \in Answered(ser) \ {c} :
                      /\ calls[d].res.status = "REJECTED"
                      /\ calls[d].res.err = <<"ErrPayer", "ErrSerial">>

\* three calls with the same request: the second to arrive was stored while
\* the first was still on its way to the store, and the first was then
\* refused
C20_Witness ==
    /\ calls[1].rba = calls[2].rba
    /\ calls[2].rba = calls[3].rba
    /\ calls[1].pc = "done" /\ calls[2].pc = "done" /\ calls[3].pc = "create"
    /\ calls[2].res.status = "OK"
    /\ calls[1].res.status = "REJECTED"
    /\ calls[1].res.err = <<"ErrPayer", "ErrSerial">>

(***************************************************************************)
(* Further properties of the generator.                                    *)
(***************************************************************************)
\* the key source has yielded a candidate that meets NewCA's floor: it is
\* in a worker's hands, about to be given to the callback
YieldedFloorKey ==
    /\ caller = "NewCA"
    /\ \E w \in Workers :
          /\ wpc[w] = "found"
          /\ WDiff(w).ok
          /\ WDiff(w).d >= opts.Difficulty

\* the key source or a callback has failed, or the caller's context has
\* been cancelled
GeneratorFault ==
    \/ ctxCancelled
    \/ \E w \in Workers : wout[w].kind = "error"
    \/ \E n \in 1 .. Len(sentLog) : sentLog[n].out.kind = "error"

\* GenerateKeys has returned nil and the selected key meets the floor
GeneratedAtFloor ==
    /\ mainpc \in {"returned", "done"}
    /\ gkOutcome = DoneOutcome
    /\ selectedKey # NoKey
    /\ selectedID = NodeIDFromECDSAKey(PublicKeyFromPrivate(selectedKey))
    /\ Difficulty(selectedID).d >= opts.Difficulty

\* C21: with every worker and the caller scheduled fairly, once the key
\* source has yielded a key that meets the floor, GenerateKeys under NewCA's
\* callback returns successfully with a selected key that meets the floor
\* (unless the key source fails or the caller cancels), for every
\* concurrency, Concurrency 0 - which NewCA takes for 1 - included.
C21_FloorKeyLeadsToSuccess ==
    YieldedFloorKey ~> (GeneratedAtFloor \/ GeneratorFault)

\* NewCA called with Concurrency 0 has returned a CA
C21_Witness ==
    /\ caller = "NewCA"
    /\ opts.Concurrency = 0
    /\ ~GeneratorFault
    /\ GeneratedAtFloor
    /\ mainpc = "done"
    /\ ncaResult.state = "ok"

(***************************************************************************)
(* Further properties of the identity constructors and files.              *)
(***************************************************************************)
\* the identity in obj' is what NewIdentity made of ca
MadeFrom(ca) ==
    /\ obj'.Leaf.signer = ca.Key
    /\ obj'.Leaf.issuer = ca.Cert.pub
    /\ verifyCertSignature(ca.Cert, obj'.Leaf)
    /\ ~obj'.Leaf.isCA
    /\ obj'.CA = ca.Cert
    /\ obj'.RestChain = ca.RestChain
    /\ obj'.ID = ca.ID
    /\ obj'.Leaf.ext # NoKey <=> Len(ca.RestChain) > 0
    /\ obj'.Leaf.ext \in {NoKey, ca.Key}

\* C22: every call of NewIdentity returns an identity made from one of the
\* CAs: the leaf is signed by the CA's key and issued by the CA's
\* certificate, the CA certificate, the rest chain and the ID are the CA's,
\* the leaf carries the signed-certificate extension exactly when the CA's
\* rest chain is not empty, and no CA has changed.
C22_NewIdentityFromCA ==
    [][(obj' # obj /\ obj'.kind = "NewIdentity") =>
          /\ cas' = cas
          /\ \E ca \in cas : MadeFrom(ca)]_vars

\* NewIdentity has returned an identity of a CA with a parent: its leaf
\* carries the extension
C22_Witness ==
    /\ obj.kind = "NewIdentity"
    /\ Len(obj.RestChain) > 0
    /\ obj.Leaf.ext # NoKey
    /\ \E ca \in cas : ca.Cert = obj.CA /\ ca.RestChain = obj.RestChain

\* the certificates of the certificate file
DiskChain == CertsFromPEM(disk.cert)

\* the identity in obj' has the certificates of the file: the first as
\* leaf, the second as CA, the others as rest chain in file order
LoadedFromDisk ==
    /\ perr' = ""
    /\ obj'.Leaf = DiskChain[LeafIndex]
    /\ obj'.CA = DiskChain[CAIndex]
    /\ obj'.RestChain = SliceFrom(DiskChain, CAIndex + 1)
    /\ Len(obj'.RestChain) = Len(DiskChain) - 2
    /\ obj'.Key = disk.key

SameIdentity ==
    /\ perr' = ""
    /\ obj'.Leaf = obj.Leaf
    /\ obj'.CA = obj.CA
    /\ obj'.RestChain = obj.RestChain
    /\ obj'.Key = obj.Key
    /\ obj'.ID = obj.ID
    /\ ChainRaw(obj') = ChainRaw(obj)
    /\ ChainRaw(obj') =
          <<Raw(obj.Leaf), Raw(obj.CA)>>
          \o [n \in 1 .. Len(obj.RestChain) |-> Raw(obj.RestChain[n])]

\* the CA in obj' is ca
SameCA(ca) ==
    /\ perr' = ""
    /\ obj'.Cert = ca.Cert
    /\ obj'.RestChain = ca.RestChain
    /\ obj'.Key = ca.Key
    /\ obj'.ID = ca.ID

CallbackReturns(w) ==
    /\ wpc[w] \in {"swap", "load", "cas"}
    /\ wpc'[w] \in {"send", "head"}

\* C25: in NewCA the shared highscore never decreases, and when the callback
\* invocation for a candidate of difficulty d returns, highscore >= d.
C25_HighscoreIsBest ==
    [][/\ highscore' >= highscore
       /\ \A w \in Workers :
             (caller = "NewCA" /\ CallbackReturns(w)) =>
                highscore' >= WDiff(w).d]_vars

\* the worker is in the callback, between its call and its return
InCallback(w) ==
    wpc[w] \in {"found", "lock", "check", "setkey", "setid", "unlock", "swap",
                "load", "cas"}

\* id is the node ID of key k and meets GenerateKey's minimum
ProperPair(k, id) ==
    /\ k \in ECDSAKeys
    /\ id = NodeIDFromECDSAKey(PublicKeyFromPrivate(k))
    /\ Difficulty(id).ok
    /\ Difficulty(id).d >= MinDifficulty

\* C26: every pair GenerateKey has returned without error, and every pair
\* a worker's callback invocation holds, is a key with the node ID derived
\* from that key, of difficulty at least minDifficulty: no key below the
\* threshold reaches the callback.
C26_OnlyProperPairs ==
    /\ \A p \in passed : ProperPair(p[1], p[2])
    /\ \A w \in Workers : InCallback(w) =>
          /\ <<wkey[w], wid[w]>> \in passed
          /\ ProperPair(wkey[w], wid[w])

\* the only worker's first key was below the threshold of 9 and was not
\* handed over; its second key is about to be
C26_Witness ==
    /\ caller = "cmdKeyGenerate"
    /\ opts.Difficulty = 9
    /\ Concurrency = 1
    /\ generated = 2
    /\ i = 0
    /\ wpc[1] = "found"
    /\ ProperPair(wkey[1], wid[1])

\* GenerateKeys has returned to its caller
GKReturned == mainpc \in {"returned", "done"}

\* the number of outcomes worker w has sent
SendsOf(w) == Cardinality({n \in 1 .. Len(sentLog) : sentLog[n].w = w})

PastCallback(w) == wpc[w] \in {"head", "send", "exit"}

\* C28: a cancelled context stays cancelled, and under a cancelled context a
\* worker that is at its loop head, sending or gone never generates a key or
\* invokes the callback again.  So from the cancellation on a worker invokes
\* the callback at most once more - for the key whose generation had passed
\* the loop-head check before - and starts no further iteration.
C28_AtMostOneMoreCallback ==
    [][/\ CtxErr => CtxErr'
       /\ \A w \in Workers :
             /\ (CtxErr /\ PastCallback(w)) =>
                   (PastCallback(w)' /\ ~InCallback(w)' /\ generated' = generated)
             /\ (CtxErr /\ wpc[w] = "head" /\ wpc'[w] # "head") =>
                   (wpc'[w] = "send" /\ wout'[w].kind = "cancelled")
             /\ (CtxErr /\ InCallback(w) /\ ~InCallback(w)') => PastCallback(w)'
             /\ (CtxErr /\ wpc[w] = "gen" /\ wpc'[w] # "gen") =>
                   (wpc'[w] = "found" \/ PastCallback(w)')]_vars

\* GenerateKeys has returned and a worker is still inside the callback
C28_Witness ==
    /\ GKReturned
    /\ innerCancelled
    /\ \E w \in Workers : InCallback(w) /\ wpc[w] # "found"

(***************************************************************************)
(* Further properties of the verification pipeline.                        *)
(***************************************************************************)
\* the pipeline of ServerOption: VerifyPeerCertChains, then the caller's
\* verifiers
ServerPipeline ==
    /\ Len(hs.next) >= 1
    /\ hs.next[1] = VerifyPeerCertChains

\* the pipeline of DialOption: VerifyPeerCertChains, then verifyIdentity(id)
DialPipeline ==
    /\ Len(hs.next) = 2
    /\ hs.next[1] = VerifyPeerCertChains
    /\ hs.next[2].v = "verifyIdentity"

\* C29: a handshake through the server pipeline or the dial pipeline, on
\* the certificates the peer presented, admits only chains of at least two
\* certificates, and no verifier indexes chain[CAIndex] of a shorter chain
\* (which would end the call in a panic).
C29_AdmittedChainsHaveCA ==
    (/\ hs.state = "done"
     /\ Len(hs.raw) >= 1
     /\ ServerPipeline \/ DialPipeline) =>
        /\ hs.res.state = "ok" => Len(hs.raw) >= 2
        /\ hs.res.state # "panic"

(***************************************************************************)
(* Further properties of the revocation check.                             *)
(***************************************************************************)
\* the n-th record stored is validly signed by the CA of the chain of the
\* handshake in rv, and names that chain's leaf or CA
RevokesPresented(n) ==
    LET e == revLog[n]
        leaf == rv.chain[LeafIndex]
        ca == rv.chain[CAIndex]
    IN /\ e.ca = ca
       /\ RevocationVerify(e.rev, ca)
       /\ e.rev.CertHash \in {Raw(leaf), Raw(ca)}

\* C30: a handshake that presents a certificate named by a validly signed
\* revocation record stored before it fails with RevokedCert, whatever
\* records were stored for the same CA after that record.
C30_RevokedStaysRevoked ==
    (/\ rv.state = "done"
     /\ \E n \in 1 .. rv.at : RevokesPresented(n)) =>
        rv.res = "RevokedCert"

(***************************************************************************)
(* A further property of the bandwidth-agreement receiver.                 *)
(***************************************************************************)
\* verifySignature was called in the call whose memory is followed
MemVerified == mem.state = "done" /\ mem.res.log # <<>>

\* C31: after verifySignature has returned, the caller's message and the
\* payer allocation inside it carry the signature and the certificates they
\* were received with, and the message handed to CreateAgreement is the
\* message that was received.
C31_VerifiesCopies ==
    /\ MemVerified =>
          /\ mem.after.rba.Signature = mem.received.Signature
          /\ mem.after.rba.Certs = mem.received.Certs
          /\ mem.after.rba.PayerAllocation.Signature =
                mem.received.PayerAllocation.Signature
          /\ mem.after.rba.PayerAllocation.Certs =
                mem.received.PayerAllocation.Certs
          /\ mem.after.rba = mem.received
    /\ (mem.state = "done" /\ mem.handed # Unassigned) =>
          mem.handed = mem.received

\* a message with signatures and certificates was verified on copies whose
\* signatures and certificates had been set to nil, and was stored
C31_Witness ==
    /\ MemVerified
    /\ mem.res.status = "OK"
    /\ mem.received.Certs # NilCerts
    /\ mem.received.PayerAllocation.Certs # NilCerts
    /\ mem.after.rbad.Signature = NilSignature
    /\ mem.after.rbad.Certs = NilCerts
    /\ mem.after.rbad.PayerAllocation = mem.received.PayerAllocation
    /\ mem.after.pbad.Signature = NilSignature
    /\ mem.after.pbad.Certs = NilCerts
    /\ mem.handed = mem.received

====
